---- MODULE Spec2Model ----
(***************************************************************************)
(* Model of the banking ledger: AccountService.createAccount and the       *)
(* TransactionService deposit / withdraw / transfer flows over a document  *)
(* store with multi-document transactions (snapshot reads, write-conflict  *)
(* detection on documents written inside a session).                       *)
(*                                                                         *)
(* Every `await` of the services is a suspension point, so every store     *)
(* call is one action; the synchronous code that follows a store call up   *)
(* to the next one belongs to the same action.                             *)
(***************************************************************************)
EXTENDS Integers, Sequences, FiniteSets, TLC

\* ---- bounds of the model ------------------------------------------------
MaxProcs == 2
MaxOps == 2
MaxAccounts == 2
MaxAmount == 2
MaxInitialBalance == 1
MaxTime == 2
MaxPage == 2
MaxLimit == 2

Procs == 1..MaxProcs
OpIds == 1..MaxOps
AcctIds == 1..MaxAccounts
Amounts == 1..MaxAmount
Users == {"u1", "u2"}
Currencies == {"USD", "EUR"}

\* the amounts a request body can carry: zero and negative ones included
RequestAmounts == (0 - 1)..MaxAmount

\* an account id arrives as a string of the request body; the hex digits of an
\* ObjectId read the same in lower and in upper case, so every id has two spellings
Spellings == {"lower", "upper"}
AcctRefs == AcctIds \X Spellings

\* new mongoose.Types.ObjectId(string)
ObjectId(ref) == ref[1]

VARIABLES
  useTransactions,     \* config/database.ts: NODE_ENV === "production"
  probe,               \* what connectDB's check of transaction support found
  accounts,            \* committed collection `accounts`, by _id
  transactions,        \* committed collection `transactions`, by _id
  ledger,              \* committed collection `ledgerentries`, in insertion order
  created,             \* the documents createAccount returned, by _id
  pc,                  \* position of each in-flight service call
  req,                 \* its input (depositData / withdrawalData / transferData)
  account,             \* its loaded `account` / `sourceAccount` document
  destinationAccount,  \* its loaded `destinationAccount` document
  transaction,         \* its in-memory `transaction` document
  session,             \* its mongoose ClientSession
  error,               \* the error it has thrown and not yet delivered
  nOps,                \* number of service calls started so far
  responses,           \* what each finished call returned or threw, by call
  query,               \* the read-only call in flight: its queryParams and `total`
  result               \* what the last read-only call answered

config == <<useTransactions, probe>>
reads == <<query, result>>
store == <<accounts, transactions, ledger>>
locals == <<pc, req, account, destinationAccount, transaction, session, error>>
vars == <<useTransactions, probe, accounts, transactions, ledger, created, pc, req,
          account, destinationAccount, transaction, session, error, nOps,
          responses, query, result>>

\* ---- documents ------------------------------------------------------------
Null == [null |-> TRUE]
NoAccounts == [a \in AcctIds |-> Null]
NoResponse == [status |-> 0, message |-> "", transaction |-> Null]

NewAccount(id, userId, currency, initialBalance) ==
  [id |-> id, userId |-> userId, currency |-> currency,
   balance |-> initialBalance, availableBalance |-> initialBalance,
   status |-> "ACTIVE", ver |-> 0]

NewTransaction(id, userId, type, amount, currency, src, dst) ==
  [id |-> id, userId |-> userId, type |-> type, amount |-> amount,
   currency |-> currency, sourceAccountId |-> src,
   destinationAccountId |-> dst, status |-> "PENDING"]

NewLedgerEntry(transactionId, accountId, type, amount, currency, balance) ==
  [transactionId |-> transactionId, accountId |-> accountId, type |-> type,
   amount |-> amount, currency |-> currency, balance |-> balance]

\* faulty variant: the final status is FAILED
CompletedAsFailed(tx) == [tx EXCEPT !.status = "FAILED"]

\* transaction.status = COMPLETED (completedAt is a timestamp, not modelled)
Completed(tx) == [tx EXCEPT !.status = "COMPLETED"]

\* ---- the store -------------------------------------------------------------
\* `state` is the driver's ClientSession.transaction.state
EmptySession ==
  [active |-> FALSE, started |-> FALSE, state |-> "NO_TRANSACTION",
   snapshot |-> NoAccounts, transaction |-> Null, entries |-> <<>>,
   accounts |-> NoAccounts]

\* faulty variant: the owner is not part of the filter
FindOneUnscoped(coll, id, userId) == coll[id]

\* Account.findOne({_id, userId}) and Account.findOne({_id})
FindOne(coll, id, userId) ==
  IF coll[id] # Null /\ coll[id].userId = userId THEN coll[id] ELSE Null
FindById(coll, id) == coll[id]

\* The first operation of a multi-document transaction fixes its snapshot.
Snapshot(s) == IF s.started THEN s ELSE [s EXCEPT !.started = TRUE, !.snapshot = accounts]

\* A document some open session has written is locked until that session ends.
Locked(id) == \E q \in Procs : session[q].accounts[id] # Null

\* A write inside a session conflicts when the document changed after the
\* session's snapshot or is being written by another open session.
WriteConflict(p, id) ==
  \/ accounts[id].ver # session[p].snapshot[id].ver
  \/ \E q \in Procs \ {p} : session[q].accounts[id] # Null

\* document.save() sends $set of the modified paths only
ApplySet(doc, set) ==
  [f \in DOMAIN doc |-> IF f \in DOMAIN set THEN set[f] ELSE doc[f]]
Written(doc, set) == [ApplySet(doc, set) EXCEPT !.ver = @ + 1]

\* session.commitTransaction(): all writes of the session become visible
CommittedAccounts(s) ==
  [a \in AcctIds |-> IF s.accounts[a] # Null
                     THEN Written(accounts[a], s.accounts[a]) ELSE accounts[a]]
CommittedTransactions(s) ==
  IF s.transaction = Null THEN transactions
  ELSE [transactions EXCEPT ![s.transaction.id] = s.transaction]
CommittedLedger(s) == ledger \o s.entries

\* ---- pure pieces of the services -------------------------------------------
\* deposit() and closeAccount(): if (useTransactions) ...WithTransaction else
\* ...WithoutTransaction; withdraw() and transfer() always open a session.
\* faulty variant: deposit and closeAccount never open a session
UsesSessionNever(op) == IF op \in {"deposit", "closeAccount"} THEN FALSE ELSE TRUE

UsesSession(op) == IF op \in {"deposit", "closeAccount"} THEN useTransactions ELSE TRUE

\* faulty variant: the account's currency is compared with itself
CurrencyMismatchIgnored(acct, currency) == acct.currency # acct.currency

CurrencyMismatch(acct, currency) == acct.currency # currency

\* faulty variants: the funds check is off by one / the comparison is inverted /
\* the whole available balance cannot be taken
InsufficientFundsOffByOne(acct, amount) == acct.availableBalance + 1 < amount
InsufficientFundsNonStrict(acct, amount) == acct.availableBalance <= amount
InsufficientFundsInverted(acct, amount) == acct.availableBalance > amount

InsufficientFunds(acct, amount) == acct.availableBalance < amount

\* faulty variant: availableBalance is not updated
CreditedBalanceOnly(acct, amount) == [acct EXCEPT !.balance = @ + amount]

\* account.balance += amount; account.availableBalance += amount
Credited(acct, amount) ==
  [acct EXCEPT !.balance = @ + amount, !.availableBalance = @ + amount]
\* faulty variant: availableBalance is not updated
DebitedBalanceOnly(acct, amount) == [acct EXCEPT !.balance = @ - amount]

\* account.balance -= amount; account.availableBalance -= amount
Debited(acct, amount) ==
  [acct EXCEPT !.balance = @ - amount, !.availableBalance = @ - amount]
\* the modified paths account.save() writes
BalancePaths(acct) ==
  [balance |-> acct.balance, availableBalance |-> acct.availableBalance]

\* the `balance` argument of createLedgerEntry
BalanceAfterDebit(acct, amount) == acct.balance + amount
\* faulty variant: the snapshot of a credit entry adds the amount
BalanceAfterCreditAdded(acct, amount) == acct.balance + amount

BalanceAfterCredit(acct, amount) == acct.balance - amount

\* ---- the controllers' responses ---------------------------------------------------
\* res.status(201).json(transaction) / res.status(200).json({ message, account })
SuccessStatus(op) == IF op = "closeAccount" THEN 200 ELSE 201

\* the error messages a controller's catch block answers with 404
NotFoundErrors(op) ==
  IF op = "transfer"
  THEN {"Source account not found", "Destination account not found"}
  ELSE {"Account not found"}

\* faulty variant: the branches for 'Insufficient funds' are missing
BadRequestErrorsNoFunds(op) ==
  CASE op = "deposit" -> {"Currency mismatch"}
    [] op = "withdraw" -> {"Currency mismatch"}
    [] op = "transfer" -> {"Source account currency mismatch",
                           "Destination account currency mismatch"}
    [] OTHER -> {"Account must have zero balance to be closed"}

\* the error messages a controller's catch block answers with 400
BadRequestErrors(op) ==
  CASE op = "deposit" -> {"Currency mismatch"}
    [] op = "withdraw" -> {"Currency mismatch", "Insufficient funds"}
    [] op = "transfer" -> {"Source account currency mismatch",
                           "Destination account currency mismatch",
                           "Insufficient funds"}
    [] OTHER -> {"Account must have zero balance to be closed"}

\* the status a controller answers with for what the service returned or threw;
\* any other error is rethrown to the outer catch block, which answers 500
HttpStatus(op, msg) ==
  IF msg \in {"OK", "Account closed successfully"} THEN SuccessStatus(op)
  ELSE IF msg \in NotFoundErrors(op) THEN 404
  ELSE IF msg \in BadRequestErrors(op) THEN 400
  ELSE 500

\* ---- frames ------------------------------------------------------------------
At(p, op, at) == pc[p] = at /\ req[p] # Null /\ req[p].op = op

Goto(p, to) == pc' = [pc EXCEPT ![p] = to]

\* a free slot for a new service call; the lowest free slot takes it
Idle(p) ==
  /\ pc[p] = "idle"
  /\ \A q \in Procs : q < p => pc[q] # "idle"
  /\ nOps < MaxOps

\* the slots a new service call can take in this state
IdleProcs == {p \in Procs : Idle(p)}

\* what a call still reads of its input once it has thrown: nothing but its identity
Thrown(r) == [op |-> r.op, opId |-> r.opId]

\* what is left of a session once its flow has thrown: it is open, and the documents
\* it has written stay locked until the abort; its buffered writes and its
\* snapshot are never read again
AfterThrow(s) ==
  [s EXCEPT !.snapshot = NoAccounts, !.transaction = Null, !.entries = <<>>]

\* throw inside the try block of a session-based flow: the catch block runs next
\* and reads the error and the session only
Throw(p, r, msg) ==
  /\ pc' = [pc EXCEPT ![p] = "abortTransaction"]
  /\ error' = [error EXCEPT ![p] = msg]
  /\ req' = [req EXCEPT ![p] = Thrown(r)]
  /\ account' = [account EXCEPT ![p] = Null]
  /\ destinationAccount' = [destinationAccount EXCEPT ![p] = Null]
  /\ transaction' = [transaction EXCEPT ![p] = Null]

\* the call returns or rejects and its controller answers: the caller has its
\* answer, the locals are gone
Respond(p, opId, status, msg, tx) ==
  /\ responses' = [responses EXCEPT ![opId] =
                     [status |-> status, message |-> msg, transaction |-> tx]]
  /\ pc' = [pc EXCEPT ![p] = "idle"]
  /\ req' = [req EXCEPT ![p] = Null]
  /\ account' = [account EXCEPT ![p] = Null]
  /\ destinationAccount' = [destinationAccount EXCEPT ![p] = Null]
  /\ transaction' = [transaction EXCEPT ![p] = Null]
  /\ session' = [session EXCEPT ![p] = EmptySession]
  /\ error' = [error EXCEPT ![p] = ""]

\* the same for a call that has got past its first store call
Finish(p, opId, msg, tx) == Respond(p, opId, HttpStatus(req[p].op, msg), msg, tx)

\* mongoose.startSession(); session.startTransaction(); the first read in the
\* session fixes its snapshot
StartedSession ==
  [EmptySession EXCEPT !.active = TRUE, !.started = TRUE,
                       !.state = "TRANSACTION_IN_PROGRESS", !.snapshot = accounts]

\* config/database.ts: the flag is a constant of the module, fixed at load time
UseTransactions(nodeEnv) == nodeEnv = "production"

\* connectDB(): the check runs in production only (startSession; endSession); when
\* it throws, the error and a warning are logged and nothing else happens
connectDB(nodeEnv, sessionsAvailable) ==
  [useTransactions |-> UseTransactions(nodeEnv),
   probe |-> IF ~UseTransactions(nodeEnv) THEN "skipped"
             ELSE IF sessionsAvailable THEN "verified" ELSE "unavailable"]

\* no call is in flight in a process that has just started
NoCalls ==
  /\ pc = [p \in Procs |-> "idle"]
  /\ req = [p \in Procs |-> Null]
  /\ account = [p \in Procs |-> Null]
  /\ destinationAccount = [p \in Procs |-> Null]
  /\ transaction = [p \in Procs |-> Null]
  /\ session = [p \in Procs |-> EmptySession]
  /\ error = [p \in Procs |-> ""]
  /\ nOps = 0
  /\ responses = [i \in OpIds |-> NoResponse]
  /\ query = Null
  /\ result = Null

\* the stores and calls of a process that has just started on an empty database
Started ==
  /\ accounts = NoAccounts
  /\ transactions = [i \in OpIds |-> Null]
  /\ ledger = <<>>
  /\ created = NoAccounts
  /\ NoCalls

\* server.ts: connectDB().then(listen), on a deployment whose store supports sessions
Init ==
  /\ \E nodeEnv \in {"development", "production"} :
       /\ useTransactions = connectDB(nodeEnv, TRUE).useTransactions
       /\ probe = connectDB(nodeEnv, TRUE).probe
  /\ Started

\* the same start on any deployment: the check of transaction support may fail
InitAnyDeployment ==
  /\ \E nodeEnv \in {"development", "production"}, sessionsAvailable \in BOOLEAN :
       /\ useTransactions = connectDB(nodeEnv, sessionsAvailable).useTransactions
       /\ probe = connectDB(nodeEnv, sessionsAvailable).probe
  /\ Started

\* ---- AccountService.createAccount ---------------------------------------------
\* Accounts get the ids 1, 2, ... in creation order. Users and currencies are
\* interchangeable names, so the first account's owner and currency are called
\* "u1" and "USD"; every later account and every request ranges over all of them.
createAccount(id, userId, currency, initialBalance) ==
  /\ accounts[id] = Null
  /\ \A b \in AcctIds : b < id => accounts[b] # Null
  /\ id = 1 => userId = "u1" /\ currency = "USD"
  /\ accounts' = [accounts EXCEPT ![id] = NewAccount(id, userId, currency, initialBalance)]
  /\ created' = [created EXCEPT ![id] = NewAccount(id, userId, currency, initialBalance)]
  /\ UNCHANGED <<config, reads, transactions, ledger, locals, nOps, responses>>

\* ---- the controllers' input validation -------------------------------------------
\* faulty variant: zero is accepted
validateDepositInputAllowsZero(amount) ==
  IF amount < 0 THEN "\"amount\" must be a positive number" ELSE ""

\* Joi.number().positive() of validateDepositInput / validateWithdrawalInput
validateDepositInput(amount) ==
  IF amount <= 0 THEN "\"amount\" must be a positive number" ELSE ""
validateWithdrawalInput(amount) ==
  IF amount <= 0 THEN "\"amount\" must be a positive number" ELSE ""

\* res.status(400).json({ message }); return -- the service is not called
BadRequest(p, r, msg) ==
  /\ nOps' = nOps + 1
  /\ Respond(p, r.opId, 400, msg, Null)
  /\ UNCHANGED <<config, reads, store, created>>

\* ---- store calls shared by the flows -------------------------------------------
\* the first await of a session-based flow: findOne(...).session(session) and the
\* checks that follow it; `rej` is the failed check ("" when all pass)
FindInSession(p, r, acct, rej, tx, to) ==
  /\ nOps' = nOps + 1
  /\ session' = [session EXCEPT ![p] = IF rej # "" THEN AfterThrow(StartedSession)
                                        ELSE StartedSession]
  /\ IF rej # ""
     THEN Throw(p, r, rej)
     ELSE /\ req' = [req EXCEPT ![p] = r]
          /\ account' = [account EXCEPT ![p] = acct]
          /\ transaction' = [transaction EXCEPT ![p] = tx]
          /\ Goto(p, to)
          /\ UNCHANGED <<destinationAccount, error>>
  /\ UNCHANGED <<config, reads, store, created, responses>>

\* transaction.save({ session })
SaveInSession(p, tx, to) ==
  /\ session' = [session EXCEPT ![p].transaction = tx]
  /\ Goto(p, to)

\* faulty variant: the session is not passed on, the entry is written at once
createLedgerEntryOutsideSession(p, entry, to) ==
  /\ ledger' = Append(ledger, entry)
  /\ Goto(p, to)
  /\ UNCHANGED <<config, reads, accounts, transactions, created, req, account,
                 destinationAccount, transaction, session, error, nOps, responses>>

\* createLedgerEntry(..., session): entry.save({ session })
createLedgerEntry(p, entry, to) ==
  /\ session' = [session EXCEPT ![p].entries = Append(@, entry)]
  /\ Goto(p, to)
  /\ UNCHANGED <<config, reads, store, created, req, account, destinationAccount,
                 transaction, error, nOps, responses>>

\* account.save() without the session option: the write is outside the scope
SaveAccountOutsideSession(p, doc, to) ==
  /\ ~Locked(doc.id)
  /\ accounts' = [accounts EXCEPT ![doc.id] = Written(@, BalancePaths(doc))]
  /\ Goto(p, to)
  /\ UNCHANGED <<session, req, transaction, error>>

\* faulty variant: on a write conflict the scope is opened anew and the writes of
\* the call are attempted again from the first one
SaveAccountInSession_Retry(p, doc, to) ==
  /\ IF WriteConflict(p, doc.id)
     THEN /\ session' = [session EXCEPT ![p] = StartedSession]
          /\ Goto(p, "saveTransaction")
     ELSE /\ session' = [session EXCEPT ![p].accounts[doc.id] = BalancePaths(doc)]
          /\ Goto(p, to)
  /\ UNCHANGED <<accounts, req, transaction, error>>

\* account.save({ session }) of the in-memory document `doc`
SaveAccountInSession(p, doc, to) ==
  /\ IF WriteConflict(p, doc.id)
     THEN /\ Throw(p, req[p], "WriteConflict")
              /\ session' = [session EXCEPT ![p] = AfterThrow(@)]
     ELSE /\ session' = [session EXCEPT ![p].accounts[doc.id] = BalancePaths(doc)]
          /\ Goto(p, to)
          /\ UNCHANGED <<req, transaction, error>>
  /\ UNCHANGED accounts

\* session.commitTransaction(); return transaction (finally: endSession)
commitTransaction(p) ==
  /\ accounts' = CommittedAccounts(session[p])
  /\ transactions' = CommittedTransactions(session[p])
  /\ ledger' = CommittedLedger(session[p])
  /\ Finish(p, req[p].opId, "OK", transaction[p])
  /\ UNCHANGED <<config, reads, created, nOps>>

\* what the driver's session.abortTransaction() throws when commitTransaction has
\* been called on the session before, whether or not the commit succeeded
AbortAfterCommitError == "Cannot call abortTransaction after calling commitTransaction"

\* what the catch block rejects with: `await session.abortTransaction()` comes
\* before `throw error`, so when the abort throws, its error replaces the caught one
Rethrown(s, err) ==
  IF s.state = "TRANSACTION_COMMITTED" THEN AbortAfterCommitError ELSE err

\* catch: session.abortTransaction(); throw error (finally: endSession)
abortTransaction(p) ==
  /\ Finish(p, req[p].opId, Rethrown(session[p], error[p]), Null)
  /\ UNCHANGED <<config, reads, store, created, nOps>>

\* ---- TransactionService.deposit --------------------------------------------------
DepositTransaction(r) ==
  NewTransaction(r.opId, r.userId, "DEPOSIT", r.amount, r.currency, 0, r.accountId)

DepositEntry(r, acct) ==
  NewLedgerEntry(r.opId, r.accountId, "DEBIT", r.amount, r.currency,
                 BalanceAfterDebit(acct, r.amount))

\* the precondition checks of deposit, in source order ("" when they pass)
DepositRejection(acct, r) ==
  IF acct = Null THEN "Account not found"
  ELSE IF CurrencyMismatch(acct, r.currency) THEN "Currency mismatch"
  ELSE ""

\* depositWithTransaction up to its first write
DepositWithTransaction_findOne(p, r) ==
  LET acct == FindOne(accounts, r.accountId, r.userId)
  IN  FindInSession(p, r, acct, DepositRejection(acct, r), DepositTransaction(r),
                    "saveTransaction")

\* depositWithoutTransaction up to its first write
DepositWithoutTransaction_findOne(p, r) ==
  LET acct == FindOne(accounts, r.accountId, r.userId)
      rej == DepositRejection(acct, r)
  IN  /\ nOps' = nOps + 1
      /\ IF rej # ""
         THEN Respond(p, r.opId, HttpStatus(r.op, rej), rej, Null)
         ELSE /\ req' = [req EXCEPT ![p] = r]
              /\ account' = [account EXCEPT ![p] = acct]
              /\ transaction' = [transaction EXCEPT ![p] = DepositTransaction(r)]
              /\ Goto(p, "saveTransaction")
              /\ UNCHANGED <<destinationAccount, session, error, responses>>
      /\ UNCHANGED <<config, reads, store, created>>

deposit(p, userId, accountId, amount, currency) ==
  /\ Idle(p)
  /\ LET r == [op |-> "deposit", opId |-> nOps + 1, userId |-> userId,
               accountId |-> accountId, destinationAccountId |-> 0,
               amount |-> amount, currency |-> currency]
     IN  IF validateDepositInput(amount) # ""
         THEN BadRequest(p, r, validateDepositInput(amount))
         ELSE IF UsesSession("deposit")
         THEN DepositWithTransaction_findOne(p, r)
         ELSE DepositWithoutTransaction_findOne(p, r)

\* ---- depositWithTransaction --------------------------------------------------------
DepositWithTransaction_saveTransaction(p) ==
  /\ At(p, "deposit", "saveTransaction") /\ session[p].active
  /\ SaveInSession(p, transaction[p], "createLedgerEntry")
  /\ UNCHANGED <<config, reads, store, created, req, account, destinationAccount,
                 transaction, error, nOps, responses>>

DepositWithTransaction_createLedgerEntry(p) ==
  /\ At(p, "deposit", "createLedgerEntry") /\ session[p].active
  /\ createLedgerEntry(p, DepositEntry(req[p], account[p]), "saveAccount")

DepositWithTransaction_saveAccount(p) ==
  /\ At(p, "deposit", "saveAccount") /\ session[p].active
  /\ LET doc == Credited(account[p], req[p].amount)
     IN  /\ SaveAccountInSession(p, doc, "completeTransaction")
         /\ IF pc'[p] = "abortTransaction" THEN TRUE
            ELSE account' = [account EXCEPT ![p] = doc] /\ UNCHANGED destinationAccount
  /\ UNCHANGED <<config, reads, transactions, ledger, created, nOps, responses>>

DepositWithTransaction_completeTransaction(p) ==
  /\ At(p, "deposit", "completeTransaction") /\ session[p].active
  /\ transaction' = [transaction EXCEPT ![p] = Completed(@)]
  /\ SaveInSession(p, transaction'[p], "commitTransaction")
  /\ UNCHANGED <<config, reads, store, created, req, account, destinationAccount,
                 error, nOps, responses>>

DepositWithTransaction_commitTransaction(p) ==
  /\ At(p, "deposit", "commitTransaction") /\ session[p].active
  /\ commitTransaction(p)

DepositWithTransaction_abortTransaction(p) ==
  /\ At(p, "deposit", "abortTransaction") /\ session[p].active
  /\ abortTransaction(p)

\* ---- depositWithoutTransaction ------------------------------------------------------
\* faulty variant: the Transaction is stored as COMPLETED from the start
DepositWithoutTransaction_saveTransaction_Completed(p) ==
  /\ At(p, "deposit", "saveTransaction") /\ ~session[p].active
  /\ transactions' = [transactions EXCEPT ![transaction[p].id] = Completed(transaction[p])]
  /\ Goto(p, "createLedgerEntry")
  /\ UNCHANGED <<config, reads, accounts, ledger, created, req, account,
                 destinationAccount, transaction, session, error, nOps, responses>>

DepositWithoutTransaction_saveTransaction(p) ==
  /\ At(p, "deposit", "saveTransaction") /\ ~session[p].active
  /\ transactions' = [transactions EXCEPT ![transaction[p].id] = transaction[p]]
  /\ Goto(p, "createLedgerEntry")
  /\ UNCHANGED <<config, reads, accounts, ledger, created, req, account,
                 destinationAccount, transaction, session, error, nOps, responses>>

createLedgerEntryWithoutTransaction(p) ==
  /\ At(p, "deposit", "createLedgerEntry") /\ ~session[p].active
  /\ ledger' = Append(ledger, DepositEntry(req[p], account[p]))
  /\ Goto(p, "saveAccount")
  /\ UNCHANGED <<config, reads, accounts, transactions, created, req, account,
                 destinationAccount, transaction, session, error, nOps, responses>>

\* faulty variant: the amount is added to the stored balance ($inc) instead of the
\* loaded document being written back
DepositWithoutTransaction_saveAccount_Inc(p) ==
  /\ At(p, "deposit", "saveAccount") /\ ~session[p].active
  /\ ~Locked(req[p].accountId)
  /\ account' = [account EXCEPT ![p] = Credited(@, req[p].amount)]
  /\ accounts' = [accounts EXCEPT ![req[p].accountId] =
                    Written(@, BalancePaths(Credited(@, req[p].amount)))]
  /\ Goto(p, "completeTransaction")
  /\ UNCHANGED <<config, reads, transactions, ledger, created, req,
                 destinationAccount, transaction, session, error, nOps, responses>>

\* account.save() outside a session waits while a session holds the document
DepositWithoutTransaction_saveAccount(p) ==
  /\ At(p, "deposit", "saveAccount") /\ ~session[p].active
  /\ ~Locked(req[p].accountId)
  /\ account' = [account EXCEPT ![p] = Credited(@, req[p].amount)]
  /\ accounts' = [accounts EXCEPT ![req[p].accountId] = Written(@, BalancePaths(account'[p]))]
  /\ Goto(p, "completeTransaction")
  /\ UNCHANGED <<config, reads, transactions, ledger, created, req,
                 destinationAccount, transaction, session, error, nOps, responses>>

DepositWithoutTransaction_completeTransaction(p) ==
  /\ At(p, "deposit", "completeTransaction") /\ ~session[p].active
  /\ transactions' = [transactions EXCEPT ![transaction[p].id] = Completed(transaction[p])]
  /\ Finish(p, req[p].opId, "OK", Completed(transaction[p]))
  /\ UNCHANGED <<config, reads, accounts, ledger, created, nOps>>

\* ---- TransactionService.withdraw -------------------------------------------------
WithdrawalTransaction(r) ==
  NewTransaction(r.opId, r.userId, "WITHDRAWAL", r.amount, r.currency, r.accountId, 0)

WithdrawalEntry(r, acct) ==
  NewLedgerEntry(r.opId, r.accountId, "CREDIT", r.amount, r.currency,
                 BalanceAfterCredit(acct, r.amount))

\* the precondition checks of withdraw, in source order
WithdrawRejection(acct, r) ==
  IF acct = Null THEN "Account not found"
  ELSE IF CurrencyMismatch(acct, r.currency) THEN "Currency mismatch"
  ELSE IF InsufficientFunds(acct, r.amount) THEN "Insufficient funds"
  ELSE ""

withdraw(p, userId, accountId, amount, currency) ==
  /\ Idle(p)
  /\ LET r == [op |-> "withdraw", opId |-> nOps + 1, userId |-> userId,
               accountId |-> accountId, destinationAccountId |-> 0,
               amount |-> amount, currency |-> currency]
         acct == FindOne(accounts, r.accountId, r.userId)
     IN  IF validateWithdrawalInput(amount) # ""
         THEN BadRequest(p, r, validateWithdrawalInput(amount))
         ELSE FindInSession(p, r, acct, WithdrawRejection(acct, r),
                            WithdrawalTransaction(r), "saveTransaction")

Withdraw_saveTransaction(p) ==
  /\ At(p, "withdraw", "saveTransaction")
  /\ SaveInSession(p, transaction[p], "createLedgerEntry")
  /\ UNCHANGED <<config, reads, store, created, req, account, destinationAccount,
                 transaction, error, nOps, responses>>

Withdraw_createLedgerEntry(p) ==
  /\ At(p, "withdraw", "createLedgerEntry")
  /\ createLedgerEntry(p, WithdrawalEntry(req[p], account[p]), "saveAccount")

Withdraw_saveAccount(p) ==
  /\ At(p, "withdraw", "saveAccount")
  /\ LET doc == Debited(account[p], req[p].amount)
     IN  /\ SaveAccountInSession(p, doc, "completeTransaction")
         /\ IF pc'[p] = "abortTransaction" THEN TRUE
            ELSE account' = [account EXCEPT ![p] = doc] /\ UNCHANGED destinationAccount
  /\ UNCHANGED <<config, reads, transactions, ledger, created, nOps, responses>>

Withdraw_completeTransaction(p) ==
  /\ At(p, "withdraw", "completeTransaction")
  /\ transaction' = [transaction EXCEPT ![p] = Completed(@)]
  /\ SaveInSession(p, transaction'[p], "commitTransaction")
  /\ UNCHANGED <<config, reads, store, created, req, account, destinationAccount,
                 error, nOps, responses>>

Withdraw_commitTransaction(p) ==
  /\ At(p, "withdraw", "commitTransaction")
  /\ commitTransaction(p)

Withdraw_abortTransaction(p) ==
  /\ At(p, "withdraw", "abortTransaction")
  /\ abortTransaction(p)

\* ---- TransactionService.transfer -------------------------------------------------
TransferTransaction(r) ==
  NewTransaction(r.opId, r.userId, "TRANSFER", r.amount, r.currency,
                 r.accountId, r.destinationAccountId)

TransferOutEntry(r, src) ==
  NewLedgerEntry(r.opId, r.accountId, "CREDIT", r.amount, r.currency,
                 BalanceAfterCredit(src, r.amount))

\* faulty variant: the entry of the destination is a second CREDIT
TransferInEntryAsCredit(r, dst) ==
  NewLedgerEntry(r.opId, r.destinationAccountId, "CREDIT", r.amount, r.currency,
                 BalanceAfterDebit(dst, r.amount))

TransferInEntry(r, dst) ==
  NewLedgerEntry(r.opId, r.destinationAccountId, "DEBIT", r.amount, r.currency,
                 BalanceAfterDebit(dst, r.amount))

\* faulty variant: the funds are checked before the currencies
TransferRejection_FundsFirst(src, dst, r) ==
  IF dst = Null THEN "Destination account not found"
  ELSE IF InsufficientFunds(src, r.amount) THEN "Insufficient funds"
  ELSE IF CurrencyMismatch(src, r.currency) THEN "Source account currency mismatch"
  ELSE IF CurrencyMismatch(dst, r.currency) THEN "Destination account currency mismatch"
  ELSE ""

\* the checks of transfer that follow the second findOne, in source order
TransferRejection(src, dst, r) ==
  IF dst = Null THEN "Destination account not found"
  ELSE IF CurrencyMismatch(src, r.currency) THEN "Source account currency mismatch"
  ELSE IF CurrencyMismatch(dst, r.currency) THEN "Destination account currency mismatch"
  ELSE IF InsufficientFunds(src, r.amount) THEN "Insufficient funds"
  ELSE ""

\* validateTransferInput: amount must be positive, and the two id strings of the
\* body must differ (sourceAccountId === destinationAccountId is refused), else
\* the controller answers 400 and the service is not called
validateTransferInput(src, dst, amount) ==
  IF amount <= 0 THEN "\"amount\" must be a positive number"
  ELSE IF src = dst THEN "Source and destination accounts cannot be the same"
  ELSE ""

transfer(p, userId, src, dst, amount, currency) ==
  /\ Idle(p)
  /\ LET r == [op |-> "transfer", opId |-> nOps + 1, userId |-> userId,
               accountId |-> ObjectId(src), destinationAccountId |-> ObjectId(dst),
               amount |-> amount, currency |-> currency]
         acct == FindOne(accounts, r.accountId, userId)
     IN  IF validateTransferInput(src, dst, amount) # ""
         THEN BadRequest(p, r, validateTransferInput(src, dst, amount))
         ELSE FindInSession(p, r, acct,
                            IF acct = Null THEN "Source account not found" ELSE "",
                            Null, "findDestination")

\* faulty variant: the pending Transaction is saved, without the session, before
\* the checks that follow the second findOne
Transfer_findDestination_SavesFirst(p) ==
  /\ At(p, "transfer", "findDestination")
  /\ transactions' = [transactions EXCEPT ![req[p].opId] = TransferTransaction(req[p])]
  /\ LET dst == FindById(session[p].snapshot, req[p].destinationAccountId)
         rej == TransferRejection(account[p], dst, req[p])
     IN  IF rej # ""
         THEN Throw(p, req[p], rej) /\ session' = [session EXCEPT ![p] = AfterThrow(@)]
         ELSE /\ destinationAccount' = [destinationAccount EXCEPT ![p] = dst]
              /\ transaction' = [transaction EXCEPT ![p] = TransferTransaction(req[p])]
              /\ Goto(p, "saveTransaction")
              /\ UNCHANGED <<req, account, error, session>>
  /\ UNCHANGED <<config, reads, accounts, ledger, created, nOps, responses>>

\* faulty variant: the destination is looked up scoped to the caller
Transfer_findDestination_Scoped(p) ==
  /\ At(p, "transfer", "findDestination")
  /\ LET dst == FindOne(session[p].snapshot, req[p].destinationAccountId, req[p].userId)
         rej == TransferRejection(account[p], dst, req[p])
     IN  IF rej # ""
         THEN Throw(p, req[p], rej) /\ session' = [session EXCEPT ![p] = AfterThrow(@)]
         ELSE /\ destinationAccount' = [destinationAccount EXCEPT ![p] = dst]
              /\ transaction' = [transaction EXCEPT ![p] = TransferTransaction(req[p])]
              /\ Goto(p, "saveTransaction")
              /\ UNCHANGED <<req, account, error, session>>
  /\ UNCHANGED <<config, reads, store, created, nOps, responses>>

Transfer_findDestination(p) ==
  /\ At(p, "transfer", "findDestination")
  /\ LET dst == FindById(session[p].snapshot, req[p].destinationAccountId)
         rej == TransferRejection(account[p], dst, req[p])
     IN  IF rej # ""
         THEN Throw(p, req[p], rej) /\ session' = [session EXCEPT ![p] = AfterThrow(@)]
         ELSE /\ destinationAccount' = [destinationAccount EXCEPT ![p] = dst]
              /\ transaction' = [transaction EXCEPT ![p] = TransferTransaction(req[p])]
              /\ Goto(p, "saveTransaction")
              /\ UNCHANGED <<req, account, error, session>>
  /\ UNCHANGED <<config, reads, store, created, nOps, responses>>

Transfer_saveTransaction(p) ==
  /\ At(p, "transfer", "saveTransaction")
  /\ SaveInSession(p, transaction[p], "createLedgerEntry")
  /\ UNCHANGED <<config, reads, store, created, req, account, destinationAccount,
                 transaction, error, nOps, responses>>

Transfer_createLedgerEntryCredit(p) ==
  /\ At(p, "transfer", "createLedgerEntry")
  /\ createLedgerEntry(p, TransferOutEntry(req[p], account[p]), "createLedgerEntryDebit")

Transfer_createLedgerEntryDebit(p) ==
  /\ At(p, "transfer", "createLedgerEntryDebit")
  /\ createLedgerEntry(p, TransferInEntry(req[p], destinationAccount[p]), "saveAccount")

Transfer_saveSource(p) ==
  /\ At(p, "transfer", "saveAccount")
  /\ LET doc == Debited(account[p], req[p].amount)
     IN  /\ SaveAccountInSession(p, doc, "saveDestination")
         /\ IF pc'[p] = "abortTransaction" THEN TRUE
            ELSE account' = [account EXCEPT ![p] = doc] /\ UNCHANGED destinationAccount
  /\ UNCHANGED <<config, reads, transactions, ledger, created, nOps, responses>>

Transfer_saveDestination(p) ==
  /\ At(p, "transfer", "saveDestination")
  /\ LET doc == Credited(destinationAccount[p], req[p].amount)
     IN  /\ SaveAccountInSession(p, doc, "completeTransaction")
         /\ IF pc'[p] = "abortTransaction" THEN TRUE
            ELSE destinationAccount' = [destinationAccount EXCEPT ![p] = doc]
                 /\ UNCHANGED account
  /\ UNCHANGED <<config, reads, transactions, ledger, created, nOps, responses>>

Transfer_completeTransaction(p) ==
  /\ At(p, "transfer", "completeTransaction")
  /\ transaction' = [transaction EXCEPT ![p] = Completed(@)]
  /\ SaveInSession(p, transaction'[p], "commitTransaction")
  /\ UNCHANGED <<config, reads, store, created, req, account, destinationAccount,
                 error, nOps, responses>>

Transfer_commitTransaction(p) ==
  /\ At(p, "transfer", "commitTransaction")
  /\ commitTransaction(p)

Transfer_abortTransaction(p) ==
  /\ At(p, "transfer", "abortTransaction")
  /\ abortTransaction(p)

\* ---- AccountService.closeAccount ---------------------------------------------------
\* faulty variant: the balance is not checked
CloseRejectionNoBalanceCheck(acct) ==
  IF acct = Null THEN "Account not found" ELSE ""

\* the checks of closeAccountWith/WithoutTransaction, in source order
CloseRejection(acct) ==
  IF acct = Null THEN "Account not found"
  ELSE IF acct.balance # 0 THEN "Account must have zero balance to be closed"
  ELSE ""

\* account.status = CLOSED: the modified paths account.save() writes (none when the
\* loaded document is CLOSED already, and then save() sends nothing)
StatusPaths(acct) == IF acct.status = "CLOSED" THEN Null ELSE [status |-> "CLOSED"]

closeAccountWithTransaction(p, r) ==
  LET acct == FindOne(accounts, r.accountId, r.userId)
  IN  FindInSession(p, r, acct, CloseRejection(acct), Null, "saveAccount")

closeAccountWithoutTransaction(p, r) ==
  LET acct == FindOne(accounts, r.accountId, r.userId)
      rej == CloseRejection(acct)
  IN  /\ nOps' = nOps + 1
      /\ IF rej # ""
         THEN Respond(p, r.opId, HttpStatus(r.op, rej), rej, Null)
         ELSE /\ req' = [req EXCEPT ![p] = r]
              /\ account' = [account EXCEPT ![p] = acct]
              /\ Goto(p, "saveAccount")
              /\ UNCHANGED <<destinationAccount, transaction, session, error, responses>>
      /\ UNCHANGED <<config, reads, store, created>>

closeAccount(p, userId, accountId) ==
  /\ Idle(p)
  /\ LET r == [op |-> "closeAccount", opId |-> nOps + 1, userId |-> userId,
               accountId |-> accountId]
     IN  IF UsesSession("closeAccount")
         THEN closeAccountWithTransaction(p, r)
         ELSE closeAccountWithoutTransaction(p, r)

\* account.save({ session })
CloseAccountWithTransaction_save(p) ==
  /\ At(p, "closeAccount", "saveAccount") /\ session[p].active
  /\ LET set == StatusPaths(account[p])
         id == req[p].accountId
     IN  IF set # Null /\ WriteConflict(p, id)
         THEN /\ Throw(p, req[p], "WriteConflict")
              /\ session' = [session EXCEPT ![p] = AfterThrow(@)]
         ELSE /\ session' = IF set = Null THEN session
                            ELSE [session EXCEPT ![p].accounts[id] = set]
              /\ account' = [account EXCEPT ![p].status = "CLOSED"]
              /\ Goto(p, "commitTransaction")
              /\ UNCHANGED <<req, destinationAccount, transaction, error>>
  /\ UNCHANGED <<config, reads, store, created, nOps, responses>>

\* session.commitTransaction(); return account
CloseAccountWithTransaction_commitTransaction(p) ==
  /\ At(p, "closeAccount", "commitTransaction") /\ session[p].active
  /\ accounts' = CommittedAccounts(session[p])
  /\ Finish(p, req[p].opId, "Account closed successfully", Null)
  /\ UNCHANGED <<config, reads, transactions, ledger, created, nOps>>

CloseAccountWithTransaction_abortTransaction(p) ==
  /\ At(p, "closeAccount", "abortTransaction") /\ session[p].active
  /\ abortTransaction(p)

\* account.save(); return account
CloseAccountWithoutTransaction_save(p) ==
  /\ At(p, "closeAccount", "saveAccount") /\ ~session[p].active
  /\ LET set == StatusPaths(account[p])
         id == req[p].accountId
     IN  /\ set # Null => ~Locked(id)
         /\ accounts' = IF set = Null THEN accounts
                        ELSE [accounts EXCEPT ![id] = Written(@, set)]
  /\ Finish(p, req[p].opId, "Account closed successfully", Null)
  /\ UNCHANGED <<config, reads, transactions, ledger, created, nOps>>

\* ---- store failures -------------------------------------------------------------------
StoreCalls == {"findDestination", "saveTransaction", "createLedgerEntry",
               "createLedgerEntryDebit", "saveAccount", "saveDestination",
               "completeTransaction", "commitTransaction"}

\* the session once a store call made with it has rejected: a rejected
\* commitTransaction() leaves the driver's transaction state at COMMITTED
AfterFailure(s, call) ==
  IF call = "commitTransaction"
  THEN [AfterThrow(s) EXCEPT !.state = "TRANSACTION_COMMITTED"]
  ELSE AfterThrow(s)

\* a store call made with a session rejects: the catch block runs next
StoreFailureInSession(p) ==
  /\ pc[p] \in StoreCalls /\ session[p].active
  /\ Throw(p, req[p], "Store error")
  /\ session' = [session EXCEPT ![p] = AfterFailure(@, pc[p])]
  /\ UNCHANGED <<config, reads, store, created, nOps, responses>>

\* faulty variant: the pending Transaction of the failed call is marked FAILED
StoreFailureWithoutSession_MarksFailed(p) ==
  /\ pc[p] \in StoreCalls /\ ~session[p].active
  /\ transactions' = [i \in OpIds |->
                        IF i = req[p].opId /\ transactions[i] # Null
                        THEN [transactions[i] EXCEPT !.status = "FAILED"]
                        ELSE transactions[i]]
  /\ Finish(p, req[p].opId, "Store error", Null)
  /\ UNCHANGED <<config, reads, accounts, ledger, created, nOps>>

\* faulty variant: the ledger entries of the failed call are deleted again
StoreFailureWithoutSession_DeletesEntries(p) ==
  /\ pc[p] \in StoreCalls /\ ~session[p].active
  /\ ledger' = SelectSeq(ledger, LAMBDA e : e.transactionId # req[p].opId)
  /\ Finish(p, req[p].opId, "Store error", Null)
  /\ UNCHANGED <<config, reads, accounts, transactions, created, nOps>>

\* a store call of depositWithoutTransaction / closeAccountWithoutTransaction
\* rejects: the service rethrows, nothing is undone
StoreFailureWithoutSession(p) ==
  /\ pc[p] \in StoreCalls /\ ~session[p].active
  /\ Finish(p, req[p].opId, "Store error", Null)
  /\ UNCHANGED <<config, reads, store, created, nOps>>

Next ==
  \/ \E id \in AcctIds, u \in Users, c \in Currencies, b \in 0..MaxInitialBalance :
       createAccount(id, u, c, b)
  \/ \E p \in IdleProcs, u \in Users, a \in AcctIds, m \in RequestAmounts, c \in Currencies :
       deposit(p, u, a, m, c)
  \/ \E p \in Procs : DepositWithTransaction_saveTransaction(p)
  \/ \E p \in Procs : DepositWithTransaction_createLedgerEntry(p)
  \/ \E p \in Procs : DepositWithTransaction_saveAccount(p)
  \/ \E p \in Procs : DepositWithTransaction_completeTransaction(p)
  \/ \E p \in Procs : DepositWithTransaction_commitTransaction(p)
  \/ \E p \in Procs : DepositWithTransaction_abortTransaction(p)
  \/ \E p \in Procs : DepositWithoutTransaction_saveTransaction(p)
  \/ \E p \in Procs : createLedgerEntryWithoutTransaction(p)
  \/ \E p \in Procs : DepositWithoutTransaction_saveAccount(p)
  \/ \E p \in Procs : DepositWithoutTransaction_completeTransaction(p)
  \/ \E p \in IdleProcs, u \in Users, a \in AcctIds, m \in RequestAmounts, c \in Currencies :
       withdraw(p, u, a, m, c)
  \/ \E p \in Procs : Withdraw_saveTransaction(p)
  \/ \E p \in Procs : Withdraw_createLedgerEntry(p)
  \/ \E p \in Procs : Withdraw_saveAccount(p)
  \/ \E p \in Procs : Withdraw_completeTransaction(p)
  \/ \E p \in Procs : Withdraw_commitTransaction(p)
  \/ \E p \in Procs : Withdraw_abortTransaction(p)
  \/ \E p \in IdleProcs, u \in Users, a \in AcctRefs, d \in AcctRefs, m \in RequestAmounts,
        c \in Currencies : transfer(p, u, a, d, m, c)
  \/ \E p \in Procs : Transfer_findDestination(p)
  \/ \E p \in Procs : Transfer_saveTransaction(p)
  \/ \E p \in Procs : Transfer_createLedgerEntryCredit(p)
  \/ \E p \in Procs : Transfer_createLedgerEntryDebit(p)
  \/ \E p \in Procs : Transfer_saveSource(p)
  \/ \E p \in Procs : Transfer_saveDestination(p)
  \/ \E p \in Procs : Transfer_completeTransaction(p)
  \/ \E p \in Procs : Transfer_commitTransaction(p)
  \/ \E p \in Procs : Transfer_abortTransaction(p)
  \/ \E p \in IdleProcs, u \in Users, a \in AcctIds : closeAccount(p, u, a)
  \/ \E p \in Procs : CloseAccountWithTransaction_save(p)
  \/ \E p \in Procs : CloseAccountWithTransaction_commitTransaction(p)
  \/ \E p \in Procs : CloseAccountWithTransaction_abortTransaction(p)
  \/ \E p \in Procs : CloseAccountWithoutTransaction_save(p)
  \/ \E p \in Procs : StoreFailureInSession(p)
  \/ \E p \in Procs : StoreFailureWithoutSession(p)

Spec == Init /\ [][Next]_vars

\* On a deployment where connectDB's check failed, mongoose.startSession() can
\* reject again: it is awaited before the try block, so the call rejects with the
\* store's error and nothing is aborted.
StartSessionFailure(p, op) ==
  /\ Idle(p) /\ probe = "unavailable" /\ UsesSession(op)
  /\ nOps' = nOps + 1
  /\ Respond(p, nOps + 1, HttpStatus(op, "Store error"), "Store error", Null)
  /\ UNCHANGED <<config, reads, store, created>>

NextAnyDeployment ==
  \/ Next
  \/ \E p \in IdleProcs, op \in {"deposit", "withdraw", "transfer", "closeAccount"} :
       StartSessionFailure(p, op)

SpecAnyDeployment == InitAnyDeployment /\ [][NextAnyDeployment]_vars

\* ---- the read-only calls: getTransactionById and getTransactions ----------------------
\* The queries read the `transactions` collection only. They are followed, one call
\* at a time, on every collection of up to MaxOps documents of the shapes the flows
\* write.
Times == 1..MaxTime
\* enum TransactionType: the flows write the first three
TransactionTypes == {"DEPOSIT", "WITHDRAWAL", "TRANSFER", "FEE", "ADJUSTMENT"}

\* timestamps: true -- the first save of a document sets createdAt (Date.now(), so
\* two documents can carry the same value)
Stamped(tx, t) ==
  [f \in DOMAIN tx \cup {"createdAt"} |-> IF f = "createdAt" THEN t ELSE tx[f]]

\* who can have an account as the account of a deposit or withdrawal or as the
\* source of a transfer: its owner (account 1 is "u1"'s, see createAccount)
Owners(a) == IF a = 1 THEN {"u1"} ELSE Users

\* the documents with _id i the flows can have stored: COMPLETED ones, and PENDING
\* ones where deposits run without a session
StoredTransactions(i) ==
  LET new == {NewTransaction(i, u, "DEPOSIT", 1, "USD", 0, a) :
                a \in AcctIds, u \in Users}
               \cup {NewTransaction(i, u, "WITHDRAWAL", 1, "USD", a, 0) :
                       a \in AcctIds, u \in Users}
               \cup {NewTransaction(i, u, "TRANSFER", 1, "USD", pair[1], pair[2]) :
                       pair \in AcctIds \X AcctIds, u \in Users}
      owned == {tx \in new :
                  tx.userId \in Owners(IF tx.type = "DEPOSIT" THEN tx.destinationAccountId
                                       ELSE tx.sourceAccountId)}
      pending == {tx \in owned : tx.type = "DEPOSIT" /\ ~useTransactions}
  IN  {Stamped(tx, t) : tx \in pending \cup {Completed(d) : d \in owned}, t \in Times}

\* a running server whose database holds Transactions of earlier calls
InitQueries ==
  /\ \E nodeEnv \in {"development", "production"} :
       /\ useTransactions = connectDB(nodeEnv, TRUE).useTransactions
       /\ probe = connectDB(nodeEnv, TRUE).probe
  /\ transactions \in [OpIds -> {Null} \cup UNION {StoredTransactions(i) : i \in OpIds}]
  /\ \A i \in OpIds : transactions[i] # Null => transactions[i].id = i
  /\ accounts = NoAccounts
  /\ ledger = <<>>
  /\ created = NoAccounts
  /\ NoCalls

\* Transaction.findOne({ _id: transactionId, userId }); the controller answers 404
\* when the service returned null and 200 with the Transaction otherwise
getTransactionById(transactionId, userId) ==
  /\ query = Null /\ result = Null
  /\ LET tx == FindOne(transactions, transactionId, userId)
     IN  result' = [op |-> "getTransactionById", userId |-> userId,
                    transactionId |-> transactionId,
                    status |-> IF tx = Null THEN 404 ELSE 200,
                    message |-> IF tx = Null THEN "Transaction not found" ELSE "",
                    transaction |-> tx]
  /\ UNCHANGED <<config, store, created, locals, nOps, responses, query>>

\* the filter getTransactions builds: { userId }, $or on the two account fields
\* when accountId is given, type when given, createdAt $gte / $lte when given
\* (0 and "" stand for a parameter that is absent)
Matches(tx, q) ==
  /\ tx # Null
  /\ tx.userId = q.userId
  /\ q.accountId # 0 =>
       (tx.sourceAccountId = q.accountId \/ tx.destinationAccountId = q.accountId)
  /\ q.type # "" => tx.type = q.type
  /\ q.startDate # 0 => tx.createdAt >= q.startDate
  /\ q.endDate # 0 => tx.createdAt <= q.endDate

\* Transaction.countDocuments(query)
countDocuments(coll, q) == Cardinality({i \in DOMAIN coll : Matches(coll[i], q)})

\* .sort({ createdAt: -1 }): the orders the store can return the matching documents
\* in; documents with equal createdAt come in any order
Sorted(coll, q) ==
  LET ids == {i \in DOMAIN coll : Matches(coll[i], q)}
  IN  {seq \in [1..Cardinality(ids) -> ids] :
         /\ \A m, n \in 1..Cardinality(ids) : m # n => seq[m] # seq[n]
         /\ \A m, n \in 1..Cardinality(ids) :
              m < n => coll[seq[m]].createdAt >= coll[seq[n]].createdAt}

\* faulty variant: the current page is skipped as well
SkipThroughPage(page, limit) == page * limit

\* .skip((page - 1) * limit)
Skip(page, limit) == (page - 1) * limit

\* .skip(n).limit(limit) of a sorted cursor, as the sequence of its documents
Page(coll, seq, skip, limit) ==
  LET last == IF skip + limit < Len(seq) THEN skip + limit ELSE Len(seq)
  IN  [n \in 1..(IF last > skip THEN last - skip ELSE 0) |-> coll[seq[skip + n]]]

\* Math.ceil(total / limit)
Ceil(total, limit) == (total + limit - 1) \div limit

\* getTransactions up to its first store call: validateTransactionQueryInput has
\* passed (page >= 1, 1 <= limit, endDate >= startDate), the filter is built and
\* the matching documents are counted
getTransactions(userId, accountId, type, startDate, endDate, page, limit) ==
  /\ query = Null /\ result = Null
  /\ (startDate # 0 /\ endDate # 0) => endDate >= startDate
  /\ LET q == [op |-> "getTransactions", userId |-> userId, accountId |-> accountId,
               type |-> type, startDate |-> startDate, endDate |-> endDate,
               page |-> page, limit |-> limit, total |-> 0]
     IN  query' = [q EXCEPT !.total = countDocuments(transactions, q)]
  /\ result' = Null
  /\ UNCHANGED <<config, store, created, locals, nOps, responses>>

\* Transaction.find(query).sort(...).skip(...).limit(limit).exec() and the return
getTransactions_find ==
  /\ query # Null /\ query.op = "getTransactions"
  /\ \E seq \in Sorted(transactions, query) :
       result' = [op |-> "getTransactions", status |-> 200,
                  transactions |-> Page(transactions, seq,
                                        Skip(query.page, query.limit), query.limit),
                  total |-> query.total, page |-> query.page, limit |-> query.limit,
                  totalPages |-> Ceil(query.total, query.limit)]
  /\ query' = Null
  /\ UNCHANGED <<config, store, created, locals, nOps, responses>>

\* the users whose read-only call can be taken in this state
Callers == IF query = Null /\ result = Null THEN Users ELSE {}

NextQueries ==
  \/ \E u \in Callers, i \in OpIds : getTransactionById(i, u)
  \/ \E u \in Callers, a \in {0} \cup AcctIds, t \in {""} \cup TransactionTypes,
        s \in {0} \cup Times, e \in {0} \cup Times, pg \in 1..MaxPage, l \in 1..MaxLimit :
       getTransactions(u, a, t, s, e, pg, l)
  \/ getTransactions_find

SpecQueries == InitQueries /\ [][NextQueries]_vars

\* ---- AccountService.updateAccount ----------------------------------------------------
\* enum AccountStatus
AccountStatuses == {"ACTIVE", "FROZEN", "CLOSED"}

\* the request bodies followed: one per status, one with a name, one with a key
\* the schema does not list
UpdateBodies ==
  {[status |-> st] : st \in AccountStatuses}
    \cup {[name |-> "savings"], [balance |-> MaxAmount + 1]}

\* faulty variant: keys the schema does not list are let through
validateAccountUpdateInput_AllowUnknown(data) ==
  IF "status" \in DOMAIN data /\ data.status \notin AccountStatuses
  THEN "\"status\" must be one of [ACTIVE, FROZEN, CLOSED]"
  ELSE ""

\* Joi.object({ name, status, metadata }): any other key is refused
validateAccountUpdateInput(data) ==
  IF ~(DOMAIN data \subseteq {"name", "status", "metadata"})
  THEN "\"balance\" is not allowed"
  ELSE IF "status" \in DOMAIN data /\ data.status \notin AccountStatuses
  THEN "\"status\" must be one of [ACTIVE, FROZEN, CLOSED]"
  ELSE ""

\* the controller and Account.findOneAndUpdate({ _id, userId }, { $set: updateData }):
\* one store call, outside any session (it waits while a session holds the
\* document); 400 on a validation error, 404 when nothing matched, 200 otherwise.
\* The documents of the model carry no name and no metadata: $set of those
\* changes updatedAt only.
updateAccount(accountId, userId, updateData) ==
  /\ nOps < MaxOps
  /\ nOps' = nOps + 1
  /\ LET err == validateAccountUpdateInput(updateData)
         acct == FindOne(accounts, accountId, userId)
         answer(status, msg) ==
           responses' = [responses EXCEPT ![nOps + 1] =
                           [status |-> status, message |-> msg, transaction |-> Null]]
     IN  IF err # "" THEN answer(400, err) /\ UNCHANGED accounts
         ELSE IF acct = Null THEN answer(404, "Account not found") /\ UNCHANGED accounts
         ELSE /\ ~Locked(accountId)
              /\ accounts' = [accounts EXCEPT ![accountId] = Written(@, updateData)]
              /\ answer(200, "")
  /\ UNCHANGED <<config, reads, transactions, ledger, created, locals>>

\* ---- TransactionService.getLedgerEntries ---------------------------------------------
\* the positions of the entries { accountId } matches
EntriesOfAccount(log, accountId) == {n \in 1..Len(log) : log[n].accountId = accountId}

\* .sort({ createdAt: -1 }): the latest insert first (entries are taken to carry
\* distinct createdAt values, in insertion order)
Latest(log, accountId) ==
  LET ns == EntriesOfAccount(log, accountId)
  IN  CHOOSE seq \in [1..Cardinality(ns) -> ns] :
        \A m, n \in 1..Cardinality(ns) : m < n => seq[m] > seq[n]

\* getLedgerEntries up to its first store call: neither the controller nor the
\* service looks at who asks; LedgerEntry.countDocuments({ accountId })
getLedgerEntries(caller, accountId, page, limit) ==
  /\ query = Null /\ result = Null
  /\ query' = [op |-> "getLedgerEntries", userId |-> caller, accountId |-> accountId,
               page |-> page, limit |-> limit,
               total |-> Cardinality(EntriesOfAccount(ledger, accountId))]
  /\ result' = Null
  /\ UNCHANGED <<config, store, created, locals, nOps, responses>>

\* LedgerEntry.find({ accountId }).sort(...).skip(...).limit(limit).exec() and the
\* return; the controller answers 200 with the entries
getLedgerEntries_find ==
  /\ query # Null /\ query.op = "getLedgerEntries"
  /\ result' = [op |-> "getLedgerEntries", status |-> 200, userId |-> query.userId,
                accountId |-> query.accountId,
                entries |-> Page(ledger, Latest(ledger, query.accountId),
                                 Skip(query.page, query.limit), query.limit),
                total |-> query.total, page |-> query.page, limit |-> query.limit,
                totalPages |-> Ceil(query.total, query.limit)]
  /\ query' = Null
  /\ UNCHANGED <<config, store, created, locals, nOps, responses>>

\* ---- accounts and reads on a database with a history ------------------------------------
\* The calls that are not deposit, withdraw or transfer are followed on the
\* databases earlier calls have left: accounts as createAccount stored them, some
\* of them with one completed deposit of amount 1 by their owner since.
\* the accounts that can have received a deposit: its Transaction takes their id
Depositable == AcctIds \cap OpIds

\* the Transaction of the deposit into account a, as stored
StoredDeposit(a, owner) ==
  Stamped(Completed(NewTransaction(a, owner, "DEPOSIT", 1, "USD", 0, a)), a)

\* the stored state: owner[a] is "" for an account that does not exist, initial[a]
\* is the balance it was created with, deposited is the set of accounts with a deposit
Stored(owner, initial, deposited) ==
  LET exists(a) == owner[a] # ""
      made(a) == NewAccount(a, owner[a], "USD", initial[a])
      now(a) == IF a \in deposited
                THEN [Credited(made(a), 1) EXCEPT !.ver = 1] ELSE made(a)
      entry(a) == NewLedgerEntry(a, a, "DEBIT", 1, "USD", initial[a] + 1)
      RECURSIVE entries(_)
      entries(n) == IF n = 0 THEN <<>>
                    ELSE IF n \in deposited THEN Append(entries(n - 1), entry(n))
                    ELSE entries(n - 1)
  IN  [accounts |-> [a \in AcctIds |-> IF exists(a) THEN now(a) ELSE Null],
       created |-> [a \in AcctIds |-> IF exists(a) THEN made(a) ELSE Null],
       transactions |-> [i \in OpIds |-> IF i \in deposited
                                         THEN StoredDeposit(i, owner[i]) ELSE Null],
       ledger |-> entries(MaxAccounts)]

InitStored ==
  /\ \E nodeEnv \in {"development", "production"} :
       /\ useTransactions = connectDB(nodeEnv, TRUE).useTransactions
       /\ probe = connectDB(nodeEnv, TRUE).probe
  /\ \E owner \in [AcctIds -> {""} \cup Users], initial \in [AcctIds -> 0..MaxInitialBalance],
        deposited \in SUBSET Depositable :
       /\ owner[1] = "u1"
       /\ \A a \in AcctIds : owner[a] = "" =>
            /\ initial[a] = 0 /\ a \notin deposited
            /\ \A b \in AcctIds : b > a => owner[b] = ""
       /\ accounts = Stored(owner, initial, deposited).accounts
       /\ created = Stored(owner, initial, deposited).created
       /\ transactions = Stored(owner, initial, deposited).transactions
       /\ ledger = Stored(owner, initial, deposited).ledger
  /\ NoCalls

NextStored ==
  \/ \E a \in AcctIds, u \in Users, data \in UpdateBodies : updateAccount(a, u, data)
  \/ \E p \in IdleProcs, u \in Users, a \in AcctIds : closeAccount(p, u, a)
  \/ \E p \in Procs : CloseAccountWithTransaction_save(p)
  \/ \E p \in Procs : CloseAccountWithTransaction_commitTransaction(p)
  \/ \E p \in Procs : CloseAccountWithTransaction_abortTransaction(p)
  \/ \E p \in Procs : CloseAccountWithoutTransaction_save(p)
  \/ \E p \in Procs : StoreFailureInSession(p)
  \/ \E p \in Procs : StoreFailureWithoutSession(p)
  \/ \E u \in Callers, i \in OpIds : getTransactionById(i, u)
  \/ \E u \in Callers, a \in {0} \cup AcctIds : getTransactions(u, a, "", 0, 0, 1, MaxLimit)
  \/ getTransactions_find
  \/ \E u \in Callers, a \in AcctIds, pg \in 1..MaxPage, l \in 1..MaxLimit :
       getLedgerEntries(u, a, pg, l)
  \/ getLedgerEntries_find

SpecStored == InitStored /\ [][NextStored]_vars

\* ---- properties ------------------------------------------------------------------------
Signed(e) == IF e.type = "DEBIT" THEN e.amount ELSE 0 - e.amount

RECURSIVE SumEntries(_, _, _)
SumEntries(log, a, n) ==
  IF n = 0 THEN 0
  ELSE SumEntries(log, a, n - 1) + (IF log[n].accountId = a THEN Signed(log[n]) ELSE 0)

\* sum of the signed ledger entries recorded against account a
LedgerSum(a) == SumEntries(ledger, a, Len(ledger))

\* the ledger entries of transaction i, as positions of a log
EntriesOf(log, i) == {n \in 1..Len(log) : log[n].transactionId = i}

\* what a returned Transaction moves into (+) or out of (-) account a
Effect(tx, a) ==
  (IF tx.destinationAccountId = a THEN tx.amount ELSE 0)
  - (IF tx.sourceAccountId = a THEN tx.amount ELSE 0)

RECURSIVE SumCompleted(_, _)
SumCompleted(a, n) ==
  IF n = 0 THEN 0
  ELSE SumCompleted(a, n - 1)
       + (IF responses[n].message = "OK" THEN Effect(responses[n].transaction, a) ELSE 0)

Quiescent == \A p \in Procs : pc[p] = "idle"

Rejections == {"Account not found", "Currency mismatch", "Insufficient funds",
               "Source account not found", "Destination account not found",
               "Source account currency mismatch",
               "Destination account currency mismatch"}

\* the step of call p that commits its session and returns the Transaction
CommitStep(p) ==
  /\ pc[p] = "commitTransaction" /\ pc'[p] = "idle"
  /\ responses'[req[p].opId].message \in {"OK", "Account closed successfully"}

\* the step that delivers the error of call p to its caller
RejectStep(p) == pc[p] = "abortTransaction" /\ pc'[p] = "idle"

NoRecordOf(i) == transactions[i] = Null /\ EntriesOf(ledger, i) = {}
NoRecordOfAfter(i) == transactions'[i] = Null /\ EntriesOf(ledger', i) = {}

\* a new call is taken by slot p in this step
Invoked(p) == Idle(p) /\ nOps' = nOps + 1

\* the step of call p (at most one call moves in a step)
StepOf(p) == pc'[p] # pc[p] \/ req'[p] # req[p]

\* call p is rejected with msg in this step: thrown into its catch block (session
\* flows) or rejected to the caller at once (flows without a session)
RejectedWith(p, msg) ==
  \/ pc'[p] = "abortTransaction" /\ error'[p] = msg
  \/ pc[p] = "idle" /\ pc'[p] = "idle" /\ responses'[nOps + 1].message = msg

\* C1: for every account, the sum of its ledger entries (DEBIT +amount, CREDIT
\* -amount) equals the account's current balance.
C1_LedgerSumIsBalance ==
  \A a \in AcctIds : accounts[a] # Null => LedgerSum(a) = accounts[a].balance

\* C2: in strict mode a call whose store write fails at any step leaves none of its
\* writes in the committed store: no step of a call other than its successful
\* commit changes the committed collections, and a call that ends with the store's
\* error has no Transaction and no LedgerEntry of its own there.
C2_StrictFailureLeavesNoWrite ==
  [][useTransactions =>
       \A p \in Procs :
         /\ (pc'[p] # pc[p] /\ ~CommitStep(p)) => store' = store
         /\ (RejectStep(p) /\ error[p] = "Store error") =>
              /\ responses'[req[p].opId].message \in {"Store error", AbortAfterCommitError}
              /\ NoRecordOfAfter(req[p].opId)]_vars

C2_Witness ==
  /\ useTransactions
  /\ \E p \in Procs :
       /\ pc[p] = "abortTransaction" /\ error[p] = "Store error"
       /\ \E a \in AcctIds : session[p].accounts[a] # Null

\* C3: in strict mode a deposit, withdraw or transfer rejected by a precondition
\* adds no Transaction and no LedgerEntry and changes no balance: the rejecting
\* step and the delivery of the rejection leave the committed store as it was,
\* the session holds no write, and no record of the call exists afterwards.
C3_StrictRejectionLeavesNoRecord ==
  [][useTransactions =>
       \A p \in Procs :
         /\ (error[p] = "" /\ error'[p] \in Rejections) =>
              /\ store' = store
              /\ session[p].transaction = Null /\ session[p].entries = <<>>
              /\ session[p].accounts = NoAccounts /\ session'[p].accounts = NoAccounts
         /\ (RejectStep(p) /\ error[p] \in Rejections) =>
              /\ store' = store
              /\ responses'[req[p].opId].message = error[p]
              /\ NoRecordOfAfter(req[p].opId)]_vars

C3_Witness ==
  /\ useTransactions
  /\ \E i \in OpIds : responses[i].message \in Rejections /\ NoRecordOf(i)
  /\ \E a \in AcctIds : accounts[a] # Null

\* a completed transfer whose two sides are account a (see C18)
SameAccountTransfer(a) ==
  \E i \in OpIds :
    /\ responses[i].message = "OK"
    /\ responses[i].transaction.sourceAccountId = a
    /\ responses[i].transaction.destinationAccountId = a

\* C4: in strict mode no update of concurrent deposits, withdrawals and transfers
\* between distinct accounts is lost: once every call has finished, each account's
\* balance is its initial balance plus the signed sum of the amounts of exactly the
\* calls that returned a completed Transaction.
C4_StrictNoLostUpdate ==
  (useTransactions /\ Quiescent) =>
    \A a \in AcctIds :
      (accounts[a] # Null /\ ~SameAccountTransfer(a)) =>
        accounts[a].balance = created[a].balance + SumCompleted(a, MaxOps)

\* two calls ran concurrently against one account: one completed, one was
\* refused by the store's conflict detection
C4_Witness ==
  /\ useTransactions /\ Quiescent
  /\ \E i, j \in OpIds :
       /\ responses[i].message = "OK" /\ responses[j].message = "WriteConflict"
       /\ responses[i].transaction.type \in {"DEPOSIT", "WITHDRAWAL"}

\* C5: no committed state has an account with a negative balance or available
\* balance, and a withdrawal or transfer commits only if its amount fits the
\* available balance committed at that moment (so two that together exceed it
\* cannot both complete).
NonNegative ==
  \A a \in AcctIds :
    accounts[a] # Null => accounts[a].balance >= 0 /\ accounts[a].availableBalance >= 0

C5_NeverNegative ==
  [][/\ NonNegative'
     /\ \A p \in Procs :
          (CommitStep(p) /\ req[p].op \in {"withdraw", "transfer"}) =>
            accounts[req[p].accountId].availableBalance >= req[p].amount]_vars

\* two withdrawals of the whole balance raced: one completed, the other did not
C5_Witness ==
  \E i, j \in OpIds, a \in AcctIds :
    /\ responses[i].message = "OK" /\ responses[i].transaction.type = "WITHDRAWAL"
    /\ responses[i].transaction.sourceAccountId = a
    /\ responses[j].message = "WriteConflict"
    /\ accounts[a] # Null /\ accounts[a].balance = 0 /\ created[a].balance = 1

\* the one ledger entry of transaction i in a log is `e`
OnlyEntry(log, i, e) ==
  /\ Cardinality(EntriesOf(log, i)) = 1
  /\ \A n \in EntriesOf(log, i) : log[n] = e

C8_TransferEffect ==
  [][\A p \in Procs :
       (/\ req[p] # Null /\ req[p].op = "transfer" /\ CommitStep(p)
        /\ req[p].accountId # req[p].destinationAccountId) =>
         LET r == req[p]
             src == r.accountId
             dst == r.destinationAccountId
             out == NewLedgerEntry(r.opId, src, "CREDIT", r.amount, r.currency,
                                   accounts[src].balance - r.amount)
             in == NewLedgerEntry(r.opId, dst, "DEBIT", r.amount, r.currency,
                                  accounts[dst].balance + r.amount)
         IN  /\ accounts'[src].balance = accounts[src].balance - r.amount
             /\ accounts'[src].availableBalance = accounts[src].availableBalance - r.amount
             /\ accounts'[dst].balance = accounts[dst].balance + r.amount
             /\ accounts'[dst].availableBalance = accounts[dst].availableBalance + r.amount
             /\ EntriesOf(ledger, r.opId) = {}
             /\ Cardinality(EntriesOf(ledger', r.opId)) = 2
             /\ \E m, n \in EntriesOf(ledger', r.opId) : ledger'[m] = out /\ ledger'[n] = in
             /\ responses'[r.opId].transaction =
                  Completed(NewTransaction(r.opId, r.userId, "TRANSFER", r.amount,
                                           r.currency, src, dst))
             /\ transactions'[r.opId] = responses'[r.opId].transaction]_vars

C8_Witness ==
  \E i \in OpIds :
    /\ responses[i].message = "OK" /\ responses[i].transaction.type = "TRANSFER"
    /\ Cardinality(EntriesOf(ledger, i)) = 2
    /\ responses[i].transaction.sourceAccountId # responses[i].transaction.destinationAccountId
    /\ accounts[responses[i].transaction.destinationAccountId].balance >= 1

\* C9: a withdraw, or a transfer, whose account(s) exist with the request's
\* currency and whose amount exceeds the (source) account's available balance fails
\* with 'Insufficient funds'; the failing call changes no balance and creates no
\* LedgerEntry and no Transaction.
C9_InsufficientFunds ==
  [][\A p \in Procs :
       /\ Invoked(p) =>
            \A u \in Users, a \in AcctIds, m \in Amounts, c \in Currencies :
              (/\ FindOne(accounts, a, u) # Null
               /\ accounts[a].currency = c
               /\ m > accounts[a].availableBalance
               /\ withdraw(p, u, a, m, c))
              => (pc'[p] = "abortTransaction" /\ error'[p] = "Insufficient funds"
                  /\ store' = store)
       /\ (/\ Transfer_findDestination(p)
           /\ session[p].snapshot[req[p].destinationAccountId] # Null
           /\ account[p].currency = req[p].currency
           /\ session[p].snapshot[req[p].destinationAccountId].currency = req[p].currency
           /\ req[p].amount > account[p].availableBalance)
          => (pc'[p] = "abortTransaction" /\ error'[p] = "Insufficient funds"
              /\ store' = store)
       /\ (RejectStep(p) /\ error[p] = "Insufficient funds") =>
            /\ store' = store
            /\ responses'[req[p].opId].message = "Insufficient funds"
            /\ NoRecordOfAfter(req[p].opId)]_vars

C9_Witness ==
  /\ \E p \in Procs :
       /\ pc[p] = "abortTransaction" /\ error[p] = "Insufficient funds"
       /\ req[p].op = "transfer"
  /\ \E i \in OpIds : responses[i].message = "Insufficient funds"

\* C10: a deposit whose input currency differs from the currency of the (found)
\* account fails with 'Currency mismatch' and changes no state, in strict and in
\* best-effort mode: no Transaction, no LedgerEntry, no balance change.
C10_DepositCurrencyMismatch ==
  [][\A p \in Procs :
       /\ Invoked(p) =>
            \A u \in Users, a \in AcctIds, m \in Amounts, c \in Currencies :
              (/\ FindOne(accounts, a, u) # Null
               /\ accounts[a].currency # c
               /\ deposit(p, u, a, m, c))
              => /\ store' = store
                 /\ IF useTransactions
                    THEN pc'[p] = "abortTransaction" /\ error'[p] = "Currency mismatch"
                    ELSE /\ pc'[p] = "idle"
                         /\ responses'[nOps + 1].message = "Currency mismatch"
                         /\ NoRecordOfAfter(nOps + 1)
       /\ (RejectStep(p) /\ req[p].op = "deposit" /\ error[p] = "Currency mismatch") =>
            /\ store' = store
            /\ responses'[req[p].opId].message = "Currency mismatch"
            /\ NoRecordOfAfter(req[p].opId)]_vars

C10_Witness ==
  \E p \in Procs :
    /\ pc[p] = "abortTransaction" /\ error[p] = "Currency mismatch"
    /\ req[p].op = "deposit"

\* C11: a deposit or withdraw naming an account that does not exist, or that another
\* user owns, fails with 'Account not found' and changes no state (a step that
\* takes a new call is that rejection, or is no deposit or withdraw of such an
\* account); no deposit or withdraw step changes an account the caller does not own.
C11_AccountNotFound ==
  [][\A p \in Procs :
       /\ Invoked(p) =>
            \/ RejectedWith(p, "Account not found") /\ store' = store
            \/ req'[p] # Null /\ req'[p].op \notin {"deposit", "withdraw"}
            \/ \A u \in Users, a \in AcctIds, m \in Amounts, c \in Currencies :
                 ~(/\ accounts[a] = Null \/ accounts[a].userId # u
                   /\ deposit(p, u, a, m, c) \/ withdraw(p, u, a, m, c))
       /\ (/\ RejectStep(p) /\ req[p].op \in {"deposit", "withdraw"}
           /\ error[p] = "Account not found") =>
            /\ store' = store
            /\ responses'[req[p].opId].message = "Account not found"
            /\ NoRecordOfAfter(req[p].opId)
       /\ (req[p] # Null /\ req[p].op \in {"deposit", "withdraw"} /\ StepOf(p)) =>
            \A a \in AcctIds :
              accounts'[a] # accounts[a] =>
                (a = req[p].accountId /\ accounts[a].userId = req[p].userId)]_vars

\* a deposit aimed at another user's existing account was refused
C11_Witness ==
  \E i \in OpIds, a \in AcctIds :
    /\ responses[i].message = "Account not found" /\ NoRecordOf(i)
    /\ accounts[a] # Null /\ accounts[a].userId = "u2"
    /\ accounts[a] = created[a]

\* C12: transfer looks the source up scoped to the caller and the destination
\* unscoped: a missing or foreign source gives 'Source account not found' (a valid
\* transfer request gets past the source lookup only with an existing account of
\* the caller, and is refused with that message otherwise), a missing
\* destination gives 'Destination account not found', an existing destination of
\* any owner (currencies matching, funds sufficient) is accepted, and no transfer
\* step decreases the balance of an account the caller does not own.
C12_TransferScoping ==
  [][\A p \in Procs :
       /\ (Invoked(p) /\ req'[p] # Null /\ req'[p].op = "transfer") =>
            /\ store' = store
            /\ \/ RejectedWith(p, "Source account not found")
               \/ /\ pc'[p] = "findDestination"
                  /\ accounts[req'[p].accountId] # Null
                  /\ accounts[req'[p].accountId].userId = req'[p].userId
                  /\ account'[p] = accounts[req'[p].accountId]
       /\ Transfer_findDestination(p) =>
            LET dst == session[p].snapshot[req[p].destinationAccountId]
            IN  /\ store' = store
                /\ dst = Null => RejectedWith(p, "Destination account not found")
                /\ (/\ dst # Null
                    /\ account[p].currency = req[p].currency
                    /\ dst.currency = req[p].currency
                    /\ req[p].amount <= account[p].availableBalance)
                   => (pc'[p] = "saveTransaction" /\ destinationAccount'[p] = dst)
       /\ (/\ RejectStep(p)
           /\ error[p] \in {"Source account not found", "Destination account not found"}) =>
            /\ store' = store
            /\ responses'[req[p].opId].message = error[p]
            /\ NoRecordOfAfter(req[p].opId)
       /\ (req[p] # Null /\ req[p].op = "transfer" /\ StepOf(p)) =>
            \A a \in AcctIds :
              (accounts[a] # Null /\ accounts'[a].balance < accounts[a].balance) =>
                accounts[a].userId = req[p].userId]_vars

\* a transfer into another user's account completed
C12_Witness ==
  \E i \in OpIds :
    /\ responses[i].message = "OK" /\ responses[i].transaction.type = "TRANSFER"
    /\ accounts[responses[i].transaction.destinationAccountId].userId
         # responses[i].transaction.userId
    /\ accounts[responses[i].transaction.sourceAccountId].userId
         = responses[i].transaction.userId

\* C13: every Transaction is created PENDING (in memory, in a session, and in the
\* committed collection when it is written outside a session), the only change a
\* flow makes to one is PENDING -> COMPLETED, a COMPLETED one never changes, and no
\* Transaction ever has status FAILED or CANCELLED.
Statuses(tx) == tx = Null \/ tx.status \in {"PENDING", "COMPLETED"}

Transition(old, new) ==
  \/ new = old
  \/ old = Null /\ new.status = "PENDING"
  \/ old # Null /\ old.status = "PENDING" /\ new = [old EXCEPT !.status = "COMPLETED"]

C13_StatusTransitions ==
  [][/\ \A p \in Procs :
          /\ Statuses(transaction'[p]) /\ Statuses(session'[p].transaction)
          /\ pc'[p] \notin {"idle", "abortTransaction"} =>
               /\ Transition(transaction[p], transaction'[p])
               /\ Transition(session[p].transaction, session'[p].transaction)
     /\ \A i \in OpIds :
          /\ Statuses(transactions'[i])
          /\ \/ Transition(transactions[i], transactions'[i])
             \/ /\ transactions[i] = Null
                /\ \E p \in Procs : CommitStep(p) /\ transactions'[i] = session[p].transaction
          /\ (transactions[i] # Null /\ transactions[i].status = "COMPLETED") =>
               transactions'[i] = transactions[i]]_vars

\* one Transaction is stored COMPLETED and another is stored PENDING
C13_Witness ==
  \E i, j \in OpIds :
    /\ transactions[i] # Null /\ transactions[i].status = "COMPLETED"
    /\ transactions[j] # Null /\ transactions[j].status = "PENDING"

\* the step in which a store call of a deposit running without a session fails
DepositFailsWithoutSession(p) ==
  /\ req[p] # Null /\ req[p].op = "deposit" /\ ~session[p].active
  /\ pc[p] \in StoreCalls /\ pc'[p] = "idle"
  /\ responses'[req[p].opId].message = "Store error"

\* C14: in best-effort mode a store failure partway through a deposit leaves the
\* writes already made in the store: after a failed ledger insert there is a PENDING
\* Transaction with no LedgerEntry, after a failed account save a PENDING
\* Transaction and its LedgerEntry with the account not written, and the
\* Transaction of a failed deposit stays PENDING, unchanged, in every later step.
C14_BestEffortPartialWrites ==
  [][/\ \A p \in Procs :
          DepositFailsWithoutSession(p) =>
            LET r == req[p]
                tx == NewTransaction(r.opId, r.userId, "DEPOSIT", r.amount, r.currency,
                                     0, r.accountId)
                entry == NewLedgerEntry(r.opId, r.accountId, "DEBIT", r.amount,
                                        r.currency, account[p].balance + r.amount)
            IN  /\ store' = store
                /\ pc[p] = "saveTransaction" => NoRecordOf(r.opId)
                /\ pc[p] = "createLedgerEntry" =>
                     transactions[r.opId] = tx /\ EntriesOf(ledger, r.opId) = {}
                /\ pc[p] = "saveAccount" =>
                     /\ transactions[r.opId] = tx
                     /\ OnlyEntry(ledger, r.opId, entry)
                /\ pc[p] = "completeTransaction" =>
                     /\ transactions[r.opId] = tx
                     /\ Cardinality(EntriesOf(ledger, r.opId)) = 1
     /\ \A i \in OpIds :
          (responses[i].message = "Store error" /\ transactions[i] # Null) =>
            /\ transactions[i].status = "PENDING"
            /\ transactions'[i] = transactions[i]
            /\ \A n \in EntriesOf(ledger, i) : n \in EntriesOf(ledger', i)]_vars

\* a failed deposit left a PENDING Transaction and its LedgerEntry behind while the
\* account still has the balance it was created with
C14_Witness ==
  /\ ~useTransactions /\ Quiescent
  /\ \E i \in OpIds :
       /\ responses[i].message = "Store error"
       /\ transactions[i] # Null /\ transactions[i].status = "PENDING"
       /\ Cardinality(EntriesOf(ledger, i)) = 1
       /\ accounts[transactions[i].destinationAccountId]
            = created[transactions[i].destinationAccountId]

\* C15: the strategy selected at startup governs every write operation alike: in
\* best-effort mode no running deposit, withdraw or transfer has an atomic scope
\* open, and in strict mode each of them has one.
C15_StrategyGovernsAll ==
  \A p \in Procs :
    (req[p] # Null /\ req[p].op \in {"deposit", "withdraw", "transfer"}) =>
      (session[p].active <=> useTransactions)

\* C16: when strict mode is configured and the startup check of transaction support
\* fails, every later deposit and account close runs on the best-effort path: none
\* of them has an atomic scope open.
C16_ProbeFailureDowngrades ==
  probe = "unavailable" =>
    \A p \in Procs :
      (req[p] # Null /\ req[p].op \in {"deposit", "closeAccount"}) => ~session[p].active

\* the step in which closeAccount returns the closed account
CloseSucceeds(p) ==
  /\ req[p] # Null /\ req[p].op = "closeAccount" /\ pc'[p] = "idle"
  /\ responses'[req[p].opId].message = "Account closed successfully"

\* C17: closeAccount goes on to close the account exactly when the caller's account
\* exists with balance zero; with a non-zero balance it fails with 'Account must
\* have zero balance to be closed', with no such account of the caller it fails with
\* 'Account not found', and a failed close leaves status and balance as they were;
\* a close that returns has set the status to CLOSED and has not touched the
\* balance. In strict and in best-effort mode.
C17_CloseAccount ==
  [][\A p \in Procs :
       /\ Invoked(p) =>
            \A u \in Users, a \in AcctIds :
              closeAccount(p, u, a) =>
                /\ store' = store
                /\ IF accounts[a] = Null \/ accounts[a].userId # u
                   THEN RejectedWith(p, "Account not found")
                   ELSE IF accounts[a].balance # 0
                   THEN RejectedWith(p, "Account must have zero balance to be closed")
                   ELSE pc'[p] = "saveAccount" /\ account'[p] = accounts[a]
       /\ (/\ RejectStep(p) /\ req[p].op = "closeAccount"
           /\ error[p] \in {"Account not found",
                            "Account must have zero balance to be closed"}) =>
            (store' = store /\ responses'[req[p].opId].message = error[p])
       /\ CloseSucceeds(p) =>
            /\ account[p].balance = 0 /\ account[p].userId = req[p].userId
            /\ accounts'[req[p].accountId].status = "CLOSED"
       /\ (req[p] # Null /\ req[p].op = "closeAccount" /\ StepOf(p)) =>
            \A a \in AcctIds :
              accounts'[a] # accounts[a] =>
                /\ CloseSucceeds(p) /\ a = req[p].accountId
                /\ accounts'[a].balance = accounts[a].balance
                /\ accounts'[a].availableBalance = accounts[a].availableBalance]_vars

\* one close succeeded, another was refused because of the balance
C17_Witness ==
  \E i, j \in OpIds, a \in AcctIds :
    /\ responses[i].message = "Account closed successfully"
    /\ accounts[a] # Null /\ accounts[a].status = "CLOSED"
    /\ responses[j].message = "Account must have zero balance to be closed"

\* C18: no transfer request naming the same account on both sides ever creates a
\* Transaction or a LedgerEntry: no stored Transaction has the same account as
\* source and destination, and no Transaction has ledger entries of both types on
\* one account.
C18_SameAccountTransferRejected ==
  /\ \A i \in OpIds :
       transactions[i] # Null =>
         transactions[i].sourceAccountId # transactions[i].destinationAccountId
  /\ \A m, n \in 1..Len(ledger) :
       (ledger[m].transactionId = ledger[n].transactionId /\ m # n) =>
         ledger[m].accountId # ledger[n].accountId

\* C19: a deposit, withdraw or transfer request with amount zero or negative is
\* refused before any write. Every validator refuses such an amount; a step that
\* takes a new call is an answer or a throw that has written nothing and leaves no
\* record of the request, or it starts a call whose amount is positive; and no
\* Transaction and no LedgerEntry, stored or buffered, carries an amount that is
\* not positive.
ValidatorsRefuseNonPositive ==
  \A m \in RequestAmounts, src \in AcctRefs, dst \in AcctRefs :
    m <= 0 => /\ validateDepositInput(m) # ""
              /\ validateWithdrawalInput(m) # ""
              /\ validateTransferInput(src, dst, m) # ""

C19_NonPositiveAmountRejected ==
  [][/\ ValidatorsRefuseNonPositive
     /\ \A p \in Procs :
          Invoked(p) =>
            /\ store' = store
            /\ \/ /\ pc'[p] = "idle" /\ session'[p] = EmptySession
                  /\ responses'[nOps + 1].transaction = Null
                  /\ NoRecordOfAfter(nOps + 1)
               \/ /\ pc'[p] = "abortTransaction" /\ session'[p].accounts = NoAccounts
                  /\ NoRecordOfAfter(nOps + 1)
               \/ /\ pc'[p] \notin {"idle", "abortTransaction"}
                  /\ req'[p].op = "closeAccount" \/ req'[p].amount > 0
     /\ \A i \in OpIds : transactions'[i] # Null => transactions'[i].amount > 0
     /\ \A n \in 1..Len(ledger') : ledger'[n].amount > 0
     /\ \A p \in Procs :
          /\ session'[p].transaction # Null => session'[p].transaction.amount > 0
          /\ \A n \in 1..Len(session'[p].entries) : session'[p].entries[n].amount > 0
    ]_vars

\* a request with a non-positive amount was turned down after an account existed
C19_Witness ==
  \E i \in OpIds :
    /\ responses[i].message = "\"amount\" must be a positive number"
    /\ NoRecordOf(i)
    /\ accounts[1] # Null /\ accounts[1].balance = 1

\* C20: withdrawing exactly the available balance (amount = available balance =
\* balance) is accepted and, when it commits, leaves balance 0 and available
\* balance 0; 'Insufficient funds' is raised only for an amount strictly greater
\* than the available balance.
C20_WithdrawWholeBalance ==
  [][\A p \in Procs :
       /\ Invoked(p) =>
            \A u \in Users, a \in AcctIds, m \in Amounts, c \in Currencies :
              (/\ FindOne(accounts, a, u) # Null
               /\ accounts[a].currency = c
               /\ withdraw(p, u, a, m, c))
              => /\ m = accounts[a].availableBalance =>
                      (pc'[p] = "saveTransaction" /\ account'[p] = accounts[a])
                 /\ RejectedWith(p, "Insufficient funds") <=>
                      m > accounts[a].availableBalance
       /\ (/\ req[p] # Null /\ req[p].op = "withdraw" /\ CommitStep(p)
           /\ req[p].amount = accounts[req[p].accountId].availableBalance
           /\ req[p].amount = accounts[req[p].accountId].balance) =>
            /\ accounts'[req[p].accountId].balance = 0
            /\ accounts'[req[p].accountId].availableBalance = 0]_vars

\* a withdrawal of the whole balance completed and left the account empty
C20_Witness ==
  \E i \in OpIds, a \in AcctIds :
    /\ responses[i].message = "OK" /\ responses[i].transaction.type = "WITHDRAWAL"
    /\ responses[i].transaction.sourceAccountId = a
    /\ responses[i].transaction.amount = created[a].balance
    /\ accounts[a].balance = 0 /\ accounts[a].availableBalance = 0

RECURSIVE SumOfType(_, _, _, _)
SumOfType(log, i, type, n) ==
  IF n = 0 THEN 0
  ELSE SumOfType(log, i, type, n - 1)
       + (IF log[n].transactionId = i /\ log[n].type = type THEN log[n].amount ELSE 0)

\* the accounts on which transaction i has ledger entries
AccountsOf(log, i) == {log[n].accountId : n \in EntriesOf(log, i)}

\* C21: for every completed Transaction in the store, the amounts of its DEBIT
\* ledger entries and of its CREDIT ledger entries sum to the same value, and it
\* has entries on at least two accounts.
C21_DoubleEntry ==
  \A i \in OpIds :
    (transactions[i] # Null /\ transactions[i].status = "COMPLETED") =>
      /\ SumOfType(ledger, i, "DEBIT", Len(ledger))
           = SumOfType(ledger, i, "CREDIT", Len(ledger))
      /\ Cardinality(AccountsOf(ledger, i)) >= 2

\* the number of ledger entries a flow writes for a Transaction of this type
EntriesFor(tx) == IF tx.type = "TRANSFER" THEN 2 ELSE 1

\* the accounts a Transaction touches
Touched(tx) == {tx.sourceAccountId, tx.destinationAccountId} \ {0}

\* Transaction i becomes visible in the committed store in this step
Appears(i) == transactions[i] = Null /\ transactions'[i] # Null

\* C22: in strict mode no reader observes a PENDING Transaction or any other
\* uncommitted write: every Transaction in the committed store is COMPLETED and has
\* all its ledger entries there; in the step that makes it visible its entries
\* appear and every account it touches is written; and no ledger entry and no
\* balance changes in a step that does not make a Transaction visible.
C22_StrictCommittedOnly ==
  [][useTransactions =>
       /\ \A i \in OpIds :
            /\ transactions'[i] # Null =>
                 /\ transactions'[i].status = "COMPLETED"
                 /\ Cardinality(EntriesOf(ledger', i)) = EntriesFor(transactions'[i])
            /\ Appears(i) =>
                 /\ EntriesOf(ledger, i) = {}
                 /\ \A a \in Touched(transactions'[i]) :
                      /\ accounts'[a].ver > accounts[a].ver
                      /\ accounts'[a].balance # accounts[a].balance
       /\ (\/ ledger' # ledger
           \/ \E a \in AcctIds : accounts[a] # Null /\ accounts'[a].balance # accounts[a].balance)
          => \E i \in OpIds : Appears(i)]_vars

\* a call holds a Transaction, a ledger entry and a balance in its open scope, none
\* of it visible, next to a Transaction that has been committed
C22_Witness ==
  /\ useTransactions
  /\ \E p \in Procs :
       /\ session[p].transaction # Null /\ session[p].transaction.status = "PENDING"
       /\ session[p].entries # <<>>
       /\ \E a \in AcctIds : session[p].accounts[a] # Null
       /\ NoRecordOf(req[p].opId)
  /\ \E i \in OpIds : transactions[i] # Null

\* the write-back step of a deposit that runs without a session
WritesBack(p) ==
  /\ req[p] # Null /\ req[p].op = "deposit" /\ ~session[p].active
  /\ pc[p] = "saveAccount" /\ pc'[p] = "completeTransaction"

\* C23: in best-effort mode a deposit loads the account, adds the amount in memory
\* and writes the result back: the write stores the loaded balance plus the amount
\* whatever balance the store holds by then, so a deposit that wrote in between is
\* overwritten (its Transaction still completes and its ledger entry stays).
C23_BestEffortLostUpdate ==
  [][\A p \in Procs :
       WritesBack(p) =>
         LET a == req[p].accountId
         IN  /\ accounts'[a].balance = account[p].balance + req[p].amount
             /\ accounts'[a].availableBalance = account[p].availableBalance + req[p].amount
             /\ \A i \in OpIds :
                  /\ transactions'[i] = transactions[i]
                  /\ EntriesOf(ledger', i) = EntriesOf(ledger, i)]_vars

\* two deposits on one account both returned COMPLETED Transactions, both ledger
\* entries exist, and the balance holds the amount of only one of them
C23_Witness ==
  /\ ~useTransactions /\ Quiescent
  /\ \E i, j \in OpIds, a \in AcctIds :
       /\ i # j
       /\ \A k \in {i, j} :
            /\ responses[k].message = "OK"
            /\ responses[k].transaction.type = "DEPOSIT"
            /\ responses[k].transaction.status = "COMPLETED"
            /\ responses[k].transaction.destinationAccountId = a
            /\ transactions[k] = responses[k].transaction
            /\ Cardinality(EntriesOf(ledger, k)) = 1
       /\ accounts[a].balance = created[a].balance + responses[i].transaction.amount
       /\ accounts[a].balance
            < created[a].balance + responses[i].transaction.amount
                + responses[j].transaction.amount

\* C24: the controllers answer by kind of outcome: a not-found error of the service
\* (account, source, destination) gets 404, a currency mismatch, insufficient funds
\* and the refused close of a non-empty account get 400, every other error of the
\* service gets 500, and a deposit, withdraw or transfer that succeeded gets 201
\* with the completed Transaction.
C24_ResponseByKind ==
  /\ \A i \in OpIds :
       LET r == responses[i]
       IN  /\ r.message \in {"Account not found", "Source account not found",
                             "Destination account not found"} => r.status = 404
           /\ r.message \in {"Currency mismatch", "Source account currency mismatch",
                             "Destination account currency mismatch",
                             "Insufficient funds",
                             "Account must have zero balance to be closed"}
                => r.status = 400
           /\ r.message \in {"Store error", "WriteConflict", AbortAfterCommitError} => r.status = 500
           /\ r.message = "OK" =>
                /\ r.status = 201
                /\ r.transaction # Null /\ r.transaction.status = "COMPLETED"
           /\ r.status \in {0, 200, 201, 400, 404, 500}
           /\ r.status = 201 => r.message = "OK"
           /\ r.status = 500 => r.message \in {"Store error", "WriteConflict", AbortAfterCommitError}
           /\ r.status = 404 => r.transaction = Null
           /\ r.status = 400 => r.transaction = Null

\* a transfer was answered 400 for lack of funds and another call was answered 500
C24_Witness ==
  \E i, j \in OpIds :
    /\ responses[i].status = 400 /\ responses[i].message = "Insufficient funds"
    /\ responses[j].status = 500

\* Transaction tx is one the query q asks for: the caller's, on the account (as
\* source or as destination), of the type and in the date range when q names one
Wanted(tx, q) ==
  /\ tx # Null /\ tx.userId = q.userId
  /\ q.accountId \in {0, tx.sourceAccountId, tx.destinationAccountId}
  /\ q.type \in {"", tx.type}
  /\ q.startDate = 0 \/ q.startDate <= tx.createdAt
  /\ q.endDate = 0 \/ tx.createdAt <= q.endDate

\* C25: getTransactions returns only Transactions of the caller that match the
\* filters, newest first, exactly those at positions (page-1)*limit .. page*limit-1
\* of the matching Transactions in that order (at most limit of them), with total =
\* the number of matching Transactions (as counted by the first read) and
\* totalPages = the least number of pages of size limit that hold total items.
C25_GetTransactions ==
  [][/\ (query = Null /\ query' # Null) =>
          query'.total = Cardinality({i \in OpIds : Wanted(transactions[i], query')})
     /\ (query # Null /\ result' # Null) =>
          LET q == query
              r == result'
              items == r.transactions
              n == Len(items)
              all == {i \in OpIds : Wanted(transactions[i], q)}
              before == (q.page - 1) * q.limit
              got == {items[k].id : k \in 1..n}
              rest == all \ got
          IN  /\ \A k \in 1..n :
                   /\ items[k].id \in all /\ items[k] = transactions[items[k].id]
                   /\ items[k].userId = q.userId
              /\ \A j, k \in 1..n :
                   j < k => /\ items[j].createdAt >= items[k].createdAt
                            /\ items[j].id # items[k].id
              /\ n <= q.limit
              /\ IF Cardinality(all) <= before THEN n = 0
                 ELSE IF Cardinality(all) - before >= q.limit THEN n = q.limit
                 ELSE n = Cardinality(all) - before
              /\ \E older \in SUBSET rest :
                   /\ Cardinality(rest \ older) = (IF Cardinality(all) <= before
                                                   THEN Cardinality(all) ELSE before)
                   /\ \A k \in 1..n :
                        /\ \A i \in rest \ older :
                             transactions[i].createdAt >= items[k].createdAt
                        /\ \A i \in older :
                             transactions[i].createdAt <= items[k].createdAt
              /\ r.total = q.total /\ r.page = q.page /\ r.limit = q.limit
              /\ r.totalPages * q.limit >= r.total
              /\ (r.totalPages - 1) * q.limit < r.total]_vars

\* the second page of size one of a caller's two Transactions holds the older one
C25_Witness ==
  /\ result # Null /\ result.op = "getTransactions"
  /\ result.page = 2 /\ result.limit = 1 /\ result.total = 2 /\ result.totalPages = 2
  /\ Len(result.transactions) = 1
  /\ result.transactions[1].createdAt = 1
  /\ \E i \in OpIds : transactions[i] # Null /\ transactions[i].createdAt = 2

\* C26: getTransactionById returns the Transaction only when it exists and belongs
\* to the caller; for a missing one and for one of another user it returns nothing
\* (the controller answers 404, 'Transaction not found'), so no caller receives a
\* Transaction of another user.
C26_GetTransactionById ==
  [][(result = Null /\ result' # Null /\ result'.op = "getTransactionById") =>
       LET r == result'
           tx == transactions[r.transactionId]
       IN  /\ IF tx # Null /\ tx.userId = r.userId
              THEN r.transaction = tx /\ r.status = 200
              ELSE /\ r.transaction = Null /\ r.status = 404
                   /\ r.message = "Transaction not found"
           /\ r.transaction # Null => r.transaction.userId = r.userId]_vars

\* a caller asked for an existing Transaction of another user and got not-found
C26_Witness ==
  /\ result # Null /\ result.op = "getTransactionById"
  /\ result.status = 404 /\ result.transaction = Null
  /\ transactions[result.transactionId] # Null
  /\ transactions[result.transactionId].userId # result.userId

\* C27: ledger entries are append-only and immutable: every step leaves each entry
\* of the committed ledger in its place with every field as it was, so the
\* committed entries only grow.
C27_LedgerAppendOnly ==
  [][/\ Len(ledger') >= Len(ledger)
     /\ \A n \in 1..Len(ledger) : ledger'[n] = ledger[n]]_vars

\* the entry of a deposit that failed later is still there, next to the entry of
\* another call
C27_Witness ==
  /\ Quiescent
  /\ \E i, j \in OpIds :
       /\ i # j
       /\ EntriesOf(ledger, i) # {} /\ EntriesOf(ledger, j) # {}
       /\ responses[j].message = "Store error"

\* C28: in every committed state every account has available balance <= balance,
\* and in fact available balance = balance: an account is created with both equal
\* and every step changes both by the same amount.
C28_AvailableIsBalance ==
  [][\A a \in AcctIds :
       accounts'[a] # Null =>
         /\ accounts'[a].availableBalance <= accounts'[a].balance
         /\ accounts'[a].availableBalance = accounts'[a].balance
         /\ accounts[a] # Null =>
              accounts'[a].balance - accounts[a].balance
                = accounts'[a].availableBalance - accounts[a].availableBalance]_vars

\* an account created with a balance was written twice and is back at that balance
\* with nothing withheld, and another account has been credited
C28_Witness ==
  \E a, b \in AcctIds :
    /\ a # b /\ accounts[a] # Null /\ accounts[b] # Null
    /\ accounts[a].ver >= 2 /\ accounts[a].balance = 1
    /\ accounts[a].availableBalance = accounts[a].balance
    /\ accounts[b].balance > created[b].balance
    /\ accounts[b].availableBalance = accounts[b].balance

IsCompleted(tx) == tx # Null /\ tx.status = "COMPLETED"

PositionsOf(a) == {n \in 1..Len(ledger) : ledger[n].accountId = a}

\* the balance of account a before the entry at position n was applied: the snapshot
\* of the latest earlier entry of a, or the balance a was created with
BalanceBefore(a, n) ==
  LET earlier == {m \in PositionsOf(a) : m < n}
  IN  IF earlier = {} THEN created[a].balance
      ELSE ledger[CHOOSE m \in earlier : \A k \in earlier : k <= m].balance

\* C30: in strict mode, for every account, the committed entries taken in commit
\* order form a chain: each balance snapshot is the previous snapshot (the balance
\* the account was created with, for the first entry) plus the signed amount, and
\* the last snapshot is the account's current balance.
C30_SnapshotChain ==
  useTransactions =>
    \A a \in AcctIds :
      accounts[a] # Null =>
        /\ \A n \in PositionsOf(a) :
             ledger[n].balance = BalanceBefore(a, n) + Signed(ledger[n])
        /\ accounts[a].balance = BalanceBefore(a, Len(ledger) + 1)

\* a transfer call that has loaded the first of its two accounts and not the second
LoadedFirst(p) == pc[p] = "findDestination" /\ req[p] # Null /\ req[p].op = "transfer"

\* the two accounts a transfer call touches, whatever its direction
PairOf(r) == {r.accountId, r.destinationAccountId}

\* C31: transfers read their two accounts in an order that does not depend on the
\* direction of the transfer: two calls in flight over the same pair of accounts
\* have both loaded the same account of the pair first.
C31_DirectionIndependentOrder ==
  \A p, q \in Procs :
    LoadedFirst(p) /\ LoadedFirst(q) /\ PairOf(req[p]) = PairOf(req[q])
      => account[p].id = account[q].id

\* the call of process p returns or rejects in this step
Returns(p) == pc[p] # "idle" /\ pc'[p] = "idle"

\* C32: a call that has opened a write scope ends it on every path by a commit or
\* by exactly one abort: it returns either from its successful commit, or from its
\* catch block with the scope's transaction still in progress (so that
\* abortTransaction aborts it) and with the error that was thrown as what the
\* caller receives; after it has returned, its session is ended.
C32_CommitOrAbortThenEnd ==
  [][\A p \in Procs :
       /\ (Returns(p) /\ session[p].active) =>
            \/ /\ pc[p] = "commitTransaction"
               /\ responses'[req[p].opId].message \in {"OK", "Account closed successfully"}
            \/ /\ pc[p] = "abortTransaction"
               /\ session[p].state = "TRANSACTION_IN_PROGRESS"
               /\ responses'[req[p].opId].message = error[p]
       /\ Returns(p) => session'[p] = EmptySession]_vars

\* the place of each store call in the sequence of a flow
Position(at) ==
  CASE at = "findDestination" -> 1
    [] at = "saveTransaction" -> 2
    [] at = "createLedgerEntry" -> 3
    [] at = "createLedgerEntryDebit" -> 4
    [] at = "saveAccount" -> 5
    [] at = "saveDestination" -> 6
    [] at = "completeTransaction" -> 7
    [] at = "commitTransaction" -> 8
    [] at = "abortTransaction" -> 9
    [] OTHER -> 0

\* C33: a call is never retried: it opens a session at most once (when it starts),
\* its store calls are made in sequence and none is made a second time, and a call
\* that met a write conflict goes to its abort only; the caller receives the
\* conflict as a failure and the committed store holds no Transaction and no
\* LedgerEntry of the call and is left unchanged by its abort.
C33_NoRetry ==
  [][\A p \in Procs :
       /\ (pc[p] # "idle" /\ pc'[p] # "idle" /\ pc'[p] # pc[p]) =>
            /\ Position(pc'[p]) > Position(pc[p])
            /\ session'[p].active = session[p].active
            /\ req'[p].opId = req[p].opId
       /\ (pc[p] # "idle" /\ error'[p] = "WriteConflict") =>
            pc'[p] = "abortTransaction"
       /\ (RejectStep(p) /\ error[p] = "WriteConflict") =>
            /\ responses'[req[p].opId].message = "WriteConflict"
            /\ responses'[req[p].opId].status = 500
            /\ responses'[req[p].opId].transaction = Null
            /\ store' = store
            /\ NoRecordOfAfter(req[p].opId)]_vars

\* a withdraw or transfer lost a write conflict against a call that committed; it
\* was answered with the conflict and nothing of it is stored
C33_Witness ==
  /\ Quiescent
  /\ \E i, j \in OpIds :
       /\ responses[j].message = "WriteConflict" /\ NoRecordOf(j)
       /\ responses[i].message = "OK" /\ transactions[i] # Null
       /\ transactions[i].type \in {"WITHDRAWAL", "TRANSFER"}

\* the session of process p holds no write
NoWriteIn(s) ==
  s.transaction = Null /\ s.entries = <<>> /\ \A a \in AcctIds : s.accounts[a] = Null

\* the call of process p got past the checks of this step and goes on to `to`
Accepted(p, to) == pc'[p] = to /\ error'[p] = ""

\* the call process p starts in this step is a deposit or a withdraw that reached
\* its service: it goes on, or it is refused by a precondition (true of every such
\* call, and false of most others)
CheckedAtOnce(p) ==
  IF req'[p] # Null THEN req'[p].op \in {"deposit", "withdraw"}
  ELSE responses'[nOps + 1].message \in Rejections

\* C34: the preconditions are evaluated in a fixed order and the first one that
\* fails is the one reported, whatever else fails with it. withdraw: account not
\* found, then currency mismatch, then insufficient funds; deposit: account not
\* found, then currency mismatch; transfer: source not found, then destination
\* not found, then source currency mismatch, then destination currency mismatch,
\* then insufficient funds. A precondition fails only before the first write of
\* the call: the store is unchanged and the call's session holds no write.
C34_PreconditionOrder ==
  [][\A p \in Procs :
       /\ (Invoked(p) /\ CheckedAtOnce(p)) =>
            \A u \in Users, a \in AcctIds, m \in Amounts, c \in Currencies :
              LET acct == FindOne(accounts, a, u)
              IN  /\ withdraw(p, u, a, m, c) =>
                       /\ acct = Null => RejectedWith(p, "Account not found")
                       /\ (acct # Null /\ acct.currency # c) =>
                            RejectedWith(p, "Currency mismatch")
                       /\ (acct # Null /\ acct.currency = c /\ acct.availableBalance < m) =>
                            RejectedWith(p, "Insufficient funds")
                       /\ (acct # Null /\ acct.currency = c /\ acct.availableBalance >= m) =>
                            Accepted(p, "saveTransaction")
                  /\ deposit(p, u, a, m, c) =>
                       /\ acct = Null => RejectedWith(p, "Account not found")
                       /\ (acct # Null /\ acct.currency # c) =>
                            RejectedWith(p, "Currency mismatch")
                       /\ (acct # Null /\ acct.currency = c) =>
                            Accepted(p, "saveTransaction")
       /\ (Invoked(p) /\ req'[p] # Null /\ req'[p].op = "transfer") =>
            \/ RejectedWith(p, "Source account not found")
            \/ RejectedWith(p, "\"amount\" must be a positive number")
            \/ RejectedWith(p, "Source and destination accounts cannot be the same")
            \/ Accepted(p, "findDestination") /\ account'[p] # Null
       /\ Transfer_findDestination(p) =>
            LET src == account[p]
                dst == session[p].snapshot[req[p].destinationAccountId]
                c == req[p].currency
            IN  /\ dst = Null => RejectedWith(p, "Destination account not found")
                /\ (dst # Null /\ src.currency # c) =>
                     RejectedWith(p, "Source account currency mismatch")
                /\ (dst # Null /\ src.currency = c /\ dst.currency # c) =>
                     RejectedWith(p, "Destination account currency mismatch")
                /\ (/\ dst # Null /\ src.currency = c /\ dst.currency = c
                    /\ src.availableBalance < req[p].amount) =>
                     RejectedWith(p, "Insufficient funds")
                /\ (/\ dst # Null /\ src.currency = c /\ dst.currency = c
                    /\ src.availableBalance >= req[p].amount) =>
                     Accepted(p, "saveTransaction")
       /\ (error[p] = "" /\ error'[p] \in Rejections) =>
            /\ pc[p] \in {"idle", "findDestination"}
            /\ store' = store
            /\ NoWriteIn(session[p]) /\ NoWriteIn(session'[p])
       /\ (Invoked(p) /\ pc'[p] = "idle"
           /\ responses'[nOps + 1].message \in Rejections) => store' = store]_vars

\* a transfer between two USD accounts without funds was refused for the currency
\* of its source: the destination's currency and the funds fail as well, and the
\* first failing check is the one reported
C34_Witness ==
  /\ \A a \in AcctIds :
       accounts[a] # Null /\ accounts[a].currency = "USD" /\ accounts[a].balance = 0
  /\ ledger = <<>>
  /\ \E p \in Procs :
       /\ pc[p] = "abortTransaction" /\ req[p].op = "transfer"
       /\ error[p] = "Source account currency mismatch"

\* the sum of field f over the accounts 1..n of a collection
RECURSIVE SumOver(_, _, _)
SumOver(coll, f, n) ==
  IF n = 0 THEN 0
  ELSE SumOver(coll, f, n - 1) + (IF coll[n] = Null THEN 0 ELSE coll[n][f])

\* the sum of the amounts of the committed COMPLETED Transactions 1..n of a type
RECURSIVE SumCompletedOfType(_, _)
SumCompletedOfType(type, n) ==
  IF n = 0 THEN 0
  ELSE SumCompletedOfType(type, n - 1)
       + (IF IsCompleted(transactions[n]) /\ transactions[n].type = type
          THEN transactions[n].amount ELSE 0)

\* C36: money is conserved in strict mode, in every committed state and so after
\* every sequence and every interleaving of calls: the sum of all account balances
\* is the sum of the balances the accounts were created with, plus the amounts of
\* the completed deposits, minus the amounts of the completed withdrawals; a
\* completed transfer adds nothing.
C36_Conservation ==
  useTransactions =>
    SumOver(accounts, "balance", MaxAccounts)
      = SumOver(created, "balance", MaxAccounts)
        + SumCompletedOfType("DEPOSIT", MaxOps)
        - SumCompletedOfType("WITHDRAWAL", MaxOps)

\* C37: an account is CLOSED only with a zero balance: in every reachable state,
\* in either mode, every account whose status is CLOSED has balance 0.
C37_ClosedHasZeroBalance ==
  \A a \in AcctIds :
    (accounts[a] # Null /\ accounts[a].status = "CLOSED") => accounts[a].balance = 0

\* C35: updateAccount, closeAccount, getTransactionById, getTransactions and
\* getLedgerEntries change no balance and no available balance of any account, no
\* Transaction and no LedgerEntry: no step of the calls other than deposit,
\* withdraw and transfer does.
C35_OnlyFlowsChangeBalances ==
  [][/\ \A a \in AcctIds :
          accounts[a] # Null =>
            /\ accounts'[a] # Null
            /\ accounts'[a].balance = accounts[a].balance
            /\ accounts'[a].availableBalance = accounts[a].availableBalance
     /\ transactions' = transactions
     /\ ledger' = ledger]_vars

\* an account with money on it was frozen by updateAccount, an account was closed
\* by closeAccount, and a page of ledger entries was read
C35_Witness ==
  /\ \E a \in AcctIds :
       accounts[a] # Null /\ accounts[a].status = "FROZEN" /\ accounts[a].balance > 0
  /\ \E i, j \in OpIds :
       /\ responses[i].status = 200 /\ responses[i].message = ""
       /\ responses[j].message = "Account closed successfully"
  /\ result # Null /\ result.op = "getLedgerEntries" /\ Len(result.entries) > 0

\* C38: a caller obtains ledger entries of their own accounts only: every entry
\* getLedgerEntries answers with belongs to an account the caller owns.
C38_LedgerEntriesOfOwnAccounts ==
  (result # Null /\ result.op = "getLedgerEntries") =>
    \A n \in 1..Len(result.entries) :
      accounts[result.entries[n].accountId].userId = result.userId

====
